---- MODULE Spec2Model ----
(***************************************************************************)
(* SafeOps-LogMiner: the report generator (services/report-generator) and  *)
(* the dashboard API (services/dashboard-api).                             *)
(*                                                                         *)
(* JavaScript strings are sequences of one-character strings, so that      *)
(* trim(), toLowerCase(), the identifier regex and path building are       *)
(* computed, not assumed.  A JavaScript value is a record [t, v]: t is     *)
(* "undef" (undefined / null), "str" (v the characters) or "num" (v the    *)
(* characters String() prints), "bool" (v the characters of true or        *)
(* false), "null" (null where it differs from undefined), "array" (v the   *)
(* elements) or "object" (v the pairs <<key, string value>> in order).     *)
(***************************************************************************)
EXTENDS Integers, Sequences, FiniteSets

VARIABLES
    input,      \* harness: the arguments a pure function is applied to
    output,     \* harness: what the function returned
    db,         \* relational store: vuln_reports, fix_reports, anomaly_reports
    files,      \* REPORTS_DIR: path -> content (NoFile when absent)
    inflight,   \* generate / zip requests suspended at an await
    resp,       \* the response sent last
    hist        \* history of the run, per pipeline (what was ever written, ...)

vars == <<input, output, db, files, inflight, resp, hist>>

-----------------------------------------------------------------------------
(* JavaScript values and strings                                           *)

Undef == [t |-> "undef", v |-> <<>>]
JStr(s) == [t |-> "str", v |-> s]
JNum(digits) == [t |-> "num", v |-> digits]

JNull == [t |-> "null", v |-> <<>>]
JBool(b) == [t |-> "bool", v |-> IF b THEN <<"t","r","u","e">>
                                 ELSE <<"f","a","l","s","e">>]
JArr(elems) == [t |-> "array", v |-> elems]
JObj(pairs) == [t |-> "object", v |-> pairs]

\* x || d : falsy are undefined, null, "", 0, false
Truthy(x) ==
    \/ x.t = "str" /\ x.v # <<>>
    \/ x.t = "num" /\ x.v # <<"0">>
    \/ x.t = "bool" /\ x.v = <<"t","r","u","e">>
    \/ x.t \in {"array", "object"}

OrElse(x, d) == IF Truthy(x) THEN x ELSE d

\* String(x) for a value that went through `x || "..."`
StringOf(x) == x.v

UpperChars == <<"A","B","C","D","E","F","G","H","I","J","K","L","M",
                "N","O","P","Q","R","S","T","U","V","W","X","Y","Z">>
LowerChars == <<"a","b","c","d","e","f","g","h","i","j","k","l","m",
                "n","o","p","q","r","s","t","u","v","w","x","y","z">>
DigitChars == <<"0","1","2","3","4","5","6","7","8","9">>

Range(s) == {s[i] : i \in DOMAIN s}

LowerChar(c) ==
    IF c \in Range(UpperChars)
    THEN LowerChars[CHOOSE i \in DOMAIN UpperChars : UpperChars[i] = c]
    ELSE c

ToLowerCase(s) == [i \in DOMAIN s |-> LowerChar(s[i])]

UpperChar(c) ==
    IF c \in Range(LowerChars)
    THEN UpperChars[CHOOSE i \in DOMAIN LowerChars : LowerChars[i] = c]
    ELSE c

WhiteSpace == {" ", "\t", "\n"}

RECURSIVE TrimStart(_)
TrimStart(s) ==
    IF s # <<>> /\ Head(s) \in WhiteSpace THEN TrimStart(Tail(s)) ELSE s

RECURSIVE TrimEnd(_)
TrimEnd(s) ==
    IF s # <<>> /\ s[Len(s)] \in WhiteSpace
    THEN TrimEnd(SubSeq(s, 1, Len(s) - 1))
    ELSE s

Trim(s) == TrimEnd(TrimStart(s))

Min(a, b) == IF a < b THEN a ELSE b
Max(a, b) == IF a > b THEN a ELSE b

\* Math.round: every operand of the score is an integer, which it leaves alone
MathRound(x) == x

RECURSIVE SumSeq(_)
SumSeq(s) == IF s = <<>> THEN 0 ELSE Head(s) + SumSeq(Tail(s))

RECURSIVE Flatten(_)
Flatten(ss) == IF ss = <<>> THEN <<>> ELSE Head(ss) \o Flatten(Tail(ss))

Repeat(c, n) == [i \in 1..n |-> c]

SeqsUpTo(S, n) == UNION {[1..k -> S] : k \in 0..n}

-----------------------------------------------------------------------------
(* Literals                                                                *)

sCritical == <<"c","r","i","t","i","c","a","l">>
sHigh == <<"h","i","g","h">>
sMedium == <<"m","e","d","i","u","m">>
sLow == <<"l","o","w">>
sError == <<"e","r","r","o","r">>
sWarning == <<"w","a","r","n","i","n","g">>
sNote == <<"n","o","t","e">>
sFinding == <<"F","i","n","d","i","n","g">>
sDefaultRule == <<"S","A","F","E","O","P","S","_","R","U","L","E">>

-----------------------------------------------------------------------------
(* Findings and report rows                                                *)

Finding(rule, title, desc, sev) ==
    [rule_id |-> rule, title |-> title, description |-> desc, severity |-> sev,
     evidence |-> Undef]

\* a vuln_reports row; `findings` is the JSONB value as node-pg hands it over:
\* k = "null", "array" (items), "strArray" (a string that parses to items),
\* "strBad" (a string that does not parse), "object" (a stored object),
\* "number" (a stored number other than 0), "strObject" (a string that parses
\* to an object, a number other than 0 or true), "strNull" (a string that
\* parses to null, 0 or false), "strString" (a string that parses to a JSON
\* string; items are its characters)
Row(id, pipeline, at, k, items) ==
    [id |-> id, pipeline |-> pipeline, created_at |-> at,
     findings |-> [k |-> k, items |-> items]]

\* a character of a string taken as a finding: every property is undefined
CharFinding(c) == Finding(Undef, Undef, Undef, Undef)

\* what parseFindings returns where for...of can walk it: JSON.parse hands
\* back a string as it is, and its characters are walked
parseFindings(row) ==
    LET f == row.findings IN
    CASE f.k = "null" -> <<>>
      [] f.k = "array" -> f.items
      [] f.k = "strArray" -> f.items
      [] f.k = "strBad" -> <<>>
      [] f.k = "strString" -> [i \in DOMAIN f.items |-> CharFinding(f.items[i])]
      [] OTHER -> <<>>

\* parseFindings returns what JSON.parse gave: a value for...of cannot walk
parseFindingsNotIterable(row) == row.findings.k \in {"strObject", "strNull"}

\* findings.length of null is a TypeError
parseFindingsNoLength(row) == row.findings.k = "strNull"

-----------------------------------------------------------------------------
(* Score engine: report-generator                                          *)

\* severityWeight without toLowerCase(): a case-sensitive comparison
severityWeightCaseSensitive(sev) ==
    LET s == StringOf(OrElse(sev, JStr(<<>>))) IN
    IF s = sCritical THEN 10
    ELSE IF s = sHigh THEN 7
    ELSE IF s = sMedium THEN 4
    ELSE 1

severityWeight(sev) ==
    LET s == ToLowerCase(StringOf(OrElse(sev, JStr(<<>>)))) IN
    IF s = sCritical THEN 10
    ELSE IF s = sHigh THEN 7
    ELSE IF s = sMedium THEN 4
    ELSE IF s = sLow THEN 1
    ELSE 1

VulnCap == 80
AnomalyCap == 30

\* computeScore without the final clamp to [0,100]
computeScoreUnclamped(vulnRows, anomalyCount) ==
    LET all == Flatten([i \in DOMAIN vulnRows |-> parseFindings(vulnRows[i])])
        totalRisk == SumSeq([i \in DOMAIN all |-> severityWeight(all[i].severity)])
        anomalyPenalty == Min(AnomalyCap, anomalyCount * 2)
        vulnPenalty == Min(VulnCap, totalRisk * 2)
    IN  [score |-> 100 - vulnPenalty - anomalyPenalty,
         stats |-> [totalFindings |-> Len(all), totalRisk |-> totalRisk,
                    anomalyCount |-> anomalyCount],
         penalty |-> [vulnPenalty |-> vulnPenalty,
                      anomalyPenalty |-> anomalyPenalty]]

\* for (const f of findings) over a value that is not iterable
computeScoreThrows(vulnRows) ==
    \E i \in DOMAIN vulnRows : parseFindingsNotIterable(vulnRows[i])

computeScore(vulnRows, anomalyCount) ==
    LET perRow == [i \in DOMAIN vulnRows |-> parseFindings(vulnRows[i])]
        totalFindings == SumSeq([i \in DOMAIN perRow |-> Len(perRow[i])])
        all == Flatten(perRow)
        totalRisk == SumSeq([i \in DOMAIN all |-> severityWeight(all[i].severity)])
        anomalyPenalty == Min(AnomalyCap, anomalyCount * 2)
        vulnPenalty == Min(VulnCap, totalRisk * 2)
        raw == 100 - vulnPenalty - anomalyPenalty
        score == Max(0, Min(100, MathRound(raw)))
    IN  [score |-> score,
         stats |-> [totalFindings |-> totalFindings, totalRisk |-> totalRisk,
                    anomalyCount |-> anomalyCount],
         penalty |-> [vulnPenalty |-> vulnPenalty,
                      anomalyPenalty |-> anomalyPenalty]]

-----------------------------------------------------------------------------
(* Score engine: dashboard-api                                             *)

dashSeverityWeight(sev) ==
    LET s == ToLowerCase(StringOf(OrElse(sev, JStr(<<>>)))) IN
    IF s = sCritical THEN 10
    ELSE IF s = sHigh THEN 7
    ELSE IF s = sMedium THEN 4
    ELSE 1

\* Array.isArray(r.findings) ? r.findings : parseJsonMaybe(r.findings) || []
\* where for...of can walk it
dashFindings(row) ==
    IF row.findings.k \in {"array", "strArray"} THEN row.findings.items
    ELSE IF row.findings.k = "strString"
    THEN [i \in DOMAIN row.findings.items |-> CharFinding(row.findings.items[i])]
    ELSE <<>>

\* parseJsonMaybe hands back an object as it is and JSON.parse a number or a
\* parsed object: truthy values for...of cannot walk
dashFindingsNotIterable(row) ==
    row.findings.k \in {"object", "number", "strObject"}

sEvidenceSep == <<" ","|"," ">>
sNull == <<"n","u","l","l">>
sUndefined == <<"u","n","d","e","f","i","n","e","d">>

RECURSIVE Join(_, _)
Join(strs, sep) ==
    IF strs = <<>> THEN <<>>
    ELSE IF Len(strs) = 1 THEN strs[1]
    ELSE strs[1] \o sep \o Join(Tail(strs), sep)

Quoted(str) == <<"\"">> \o str \o <<"\"">>

\* JSON.stringify(x) for null, a string, a number, a boolean, an object of
\* string values and an array of those (undefined in an array prints null)
RECURSIVE JsonStringify(_)
JsonStringify(x) ==
    CASE x.t \in {"null", "undef"} -> sNull
      [] x.t = "str" -> Quoted(x.v)
      [] x.t \in {"num", "bool"} -> x.v
      [] x.t = "object" ->
            <<"{">> \o Join([i \in DOMAIN x.v |->
                                Quoted(x.v[i][1]) \o <<":">> \o Quoted(x.v[i][2])],
                            <<",">>) \o <<"}">>
      [] x.t = "array" ->
            <<"[">> \o Join([i \in DOMAIN x.v |-> JsonStringify(x.v[i])],
                            <<",">>) \o <<"]">>

\* typeof x === "object"
TypeofObject(x) == x.t \in {"null", "array", "object"}

\* String(x)
StringText(x) == IF x.t = "undef" THEN sUndefined ELSE x.v

\* the evidence of an alert:
\*   Array.isArray(e) ? e.map(x => typeof x === "object" ? JSON.stringify(x)
\*                                                        : String(x)).join(" | ")
\*   : (typeof e === "object" ? JSON.stringify(e) : (e || ""))
alertEvidence(e) ==
    IF e.t = "array"
    THEN JStr(Join([i \in DOMAIN e.v |->
                      IF TypeofObject(e.v[i]) THEN JsonStringify(e.v[i])
                      ELSE StringText(e.v[i])], sEvidenceSep))
    ELSE IF TypeofObject(e) THEN JStr(JsonStringify(e))
    ELSE OrElse(e, JStr(<<>>))

\* Array.prototype.sort is stable: alerts of later-created rows first, the
\* order inside one row (and among rows created together) kept
RECURSIVE SortNewestFirst(_)
SortNewestFirst(as) ==
    IF as = <<>> THEN <<>>
    ELSE LET top == CHOOSE i \in DOMAIN as :
                      /\ \A j \in DOMAIN as : as[j].created_at <= as[i].created_at
                      /\ \A j \in 1..(i - 1) : as[j].created_at < as[i].created_at
             rest == [j \in 1..(Len(as) - 1) |-> IF j < top THEN as[j] ELSE as[j + 1]]
         IN  <<as[top]>> \o SortNewestFirst(rest)

vulnRowsToAlertsThrows(vulnRows) ==
    \E i \in DOMAIN vulnRows : dashFindingsNotIterable(vulnRows[i])

vulnRowsToAlerts(vulnRows) ==
    LET alertsOf(r) ==
            LET fs == dashFindings(r) IN
            [i \in DOMAIN fs |->
                [pipeline |-> r.pipeline,
                 rule_id |-> OrElse(fs[i].rule_id, JStr(sDefaultRule)),
                 title |-> OrElse(fs[i].title,
                                  OrElse(fs[i].rule_id, JStr(sFinding))),
                 severity |-> JStr(ToLowerCase(StringOf(
                                  OrElse(fs[i].severity, JStr(sLow))))),
                 evidence |-> alertEvidence(fs[i].evidence),
                 created_at |-> r.created_at,
                 description |-> OrElse(fs[i].description, JStr(<<>>))]]
    IN  SortNewestFirst(Flatten([i \in DOMAIN vulnRows |-> alertsOf(vulnRows[i])]))

\* computeScoreFromAlerts with the anomaly penalty left uncapped
computeScoreFromAlertsUncapped(alerts, anomalyCount) ==
    LET totalRisk == SumSeq([i \in DOMAIN alerts |->
                                dashSeverityWeight(alerts[i].severity)])
        vulnPenalty == Min(VulnCap, totalRisk * 2)
        anomalyPenalty == anomalyCount * 2
        value == Max(0, Min(100, MathRound(100 - vulnPenalty - anomalyPenalty)))
    IN  [value |-> value,
         details |-> [totalFindings |-> Len(alerts), totalRisk |-> totalRisk,
                      anomalyCount |-> anomalyCount,
                      vulnPenalty |-> vulnPenalty,
                      anomalyPenalty |-> anomalyPenalty]]

computeScoreFromAlerts(alerts, anomalyCount) ==
    LET totalRisk == SumSeq([i \in DOMAIN alerts |->
                                dashSeverityWeight(alerts[i].severity)])
        vulnPenalty == Min(VulnCap, totalRisk * 2)
        anomalyPenalty == Min(AnomalyCap, anomalyCount * 2)
        raw == 100 - vulnPenalty - anomalyPenalty
        value == Max(0, Min(100, MathRound(raw)))
    IN  [value |-> value,
         details |-> [totalFindings |-> Len(alerts), totalRisk |-> totalRisk,
                      anomalyCount |-> anomalyCount,
                      vulnPenalty |-> vulnPenalty,
                      anomalyPenalty |-> anomalyPenalty]]

-----------------------------------------------------------------------------
(* Identifier validation and artifact paths of the report generator        *)

IdMinLen == 2
IdMaxLen == 80

\* a character class that lets the path separator in: [a-zA-Z0-9._/-]
IdCharClassWithSlash ==
    Range(LowerChars) \cup Range(UpperChars) \cup Range(DigitChars)
        \cup {".", "_", "-", "/"}

\* [a-zA-Z0-9._-]
IdCharClass ==
    Range(LowerChars) \cup Range(UpperChars) \cup Range(DigitChars)
        \cup {".", "_", "-"}

\* how many characters [a-zA-Z0-9._-]{..max} consumes at the head of s
ClassRun(s, max) ==
    LET stop == {i \in DOMAIN s : s[i] \notin IdCharClass} \cup {Len(s) + 1, max + 1}
    IN  (CHOOSE i \in stop : \A j \in stop : i <= j) - 1

\* /^[a-zA-Z0-9._-]{2,80}$/.test(v): the run reaches the end of the input
IdRegexTest(v) ==
    LET n == ClassRun(v, IdMaxLen) IN n >= IdMinLen /\ n = Len(v)

\* the regex without its upper bound: /^[a-zA-Z0-9._-]{2,}$/
safePipelineIdNoMax(in) ==
    LET v == Trim(StringOf(OrElse(in, JStr(<<>>)))) IN
    IF ~(ClassRun(v, Len(v)) >= IdMinLen /\ ClassRun(v, Len(v)) = Len(v))
    THEN Undef ELSE JStr(v)

\* null (Undef) when rejected, the trimmed string when accepted
safePipelineId(in) ==
    LET v == Trim(StringOf(OrElse(in, JStr(<<>>)))) IN
    IF ~IdRegexTest(v) THEN Undef ELSE JStr(v)

sReportsDir == <<"r","e","p","o","r","t","s">>
sHtml == <<"h","t","m","l">>
sPdf == <<"p","d","f">>
sSarif == <<"s","a","r","i","f">>

\* every artifact stored under the name of the first pipeline
filePathForFirst(pipelineId, ext) ==
    sReportsDir \o <<"/">> \o <<"p", "1">> \o <<".">> \o ext

\* path.join(REPORTS_DIR, `${pipelineId}.${ext}`) for a validated identifier
\* (no separator, so join has nothing to normalise)
filePathFor(pipelineId, ext) ==
    sReportsDir \o <<"/">> \o pipelineId \o <<".">> \o ext

-----------------------------------------------------------------------------
(* Datastore queries of the report generator                               *)

RowCap == 50

sAll == <<"a","l","l">>
sLatest == <<"l","a","t","e","s","t">>

\* String(req.query.mode || "all").toLowerCase()
modeOf(q) == ToLowerCase(StringOf(OrElse(q, JStr(sAll))))

\* a limit that does not look at the mode
limitForAny(mode) == RowCap

\* mode === "latest" ? 1 : 50
limitFor(mode) == IF mode = sLatest THEN 1 ELSE RowCap

\* ORDER BY created_at DESC over rows with distinct timestamps
RECURSIVE OrderByCreatedDesc(_)
OrderByCreatedDesc(rows) ==
    IF rows = {} THEN <<>>
    ELSE LET newest == CHOOSE r \in rows :
                          \A q \in rows : q.created_at <= r.created_at
         IN  <<newest>> \o OrderByCreatedDesc(rows \ {newest})

\* SELECT ... FROM vuln_reports WHERE pipeline=$1 ORDER BY created_at DESC LIMIT $2
vulnQuery(table, pipelineId, limit) ==
    LET hit == OrderByCreatedDesc({r \in Range(table) : r.pipeline = pipelineId})
    IN  SubSeq(hit, 1, Min(limit, Len(hit)))

-----------------------------------------------------------------------------
(* SARIF exporter                                                          *)

sDash == <<" ","-"," ">>
sVersion == <<"2",".","1",".","0">>
sToolName == <<"S","a","f","e","O","p","s","-","L","o","g","M","i","n","e","r">>

\* the level of a string severity, compared as it stands
sarifLevelCaseSensitive(sev) ==
    LET s == StringOf(OrElse(sev, JStr(sLow))) IN
    IF s = sCritical \/ s = sHigh THEN sError
    ELSE IF s = sMedium THEN sWarning
    ELSE sNote

\* (f.severity || "low").toLowerCase() and the level it selects
sarifLevel(sev) ==
    LET s == ToLowerCase(StringOf(OrElse(sev, JStr(sLow)))) IN
    IF s = sCritical \/ s = sHigh THEN sError
    ELSE IF s = sMedium THEN sWarning
    ELSE sNote

\* .toLowerCase is no method of a truthy non-string: a TypeError is thrown
sarifLevelThrows(sev) == Truthy(sev) /\ sev.t # "str"

sarifMessage(f) ==
    Trim(StringOf(OrElse(f.title, JStr(sFinding))) \o sDash
         \o StringOf(OrElse(f.description, JStr(<<>>))))

sarifResult(pipelineId, f) ==
    [ruleId |-> StringOf(OrElse(f.rule_id, JStr(sDefaultRule))),
     level |-> sarifLevel(f.severity),
     message |-> [text |-> sarifMessage(f)],
     properties |-> [pipeline |-> pipelineId]]

RECURSIVE dedupeFrom(_, _)
dedupeFrom(results, seen) ==
    IF results = <<>> THEN <<>>
    ELSE LET r == Head(results)
             ruleId == Trim(r.ruleId)
         IN  IF ruleId = <<>> \/ ruleId \in seen
             THEN dedupeFrom(Tail(results), seen)
             ELSE <<r>> \o dedupeFrom(Tail(results), seen \cup {ruleId})

dedupeSarifByRule(results) == dedupeFrom(results, {})

toSarifThrows(vulnRows) ==
    \E i \in DOMAIN vulnRows :
        \/ parseFindingsNotIterable(vulnRows[i])
        \/ \E j \in DOMAIN parseFindings(vulnRows[i]) :
              sarifLevelThrows(parseFindings(vulnRows[i])[j].severity)

toSarif(pipelineId, vulnRows) ==
    LET all == Flatten([i \in DOMAIN vulnRows |-> parseFindings(vulnRows[i])])
        results == [i \in DOMAIN all |-> sarifResult(pipelineId, all[i])]
    IN  [version |-> sVersion,
         runs |-> << [tool |-> [driver |-> [name |-> sToolName]],
                      results |-> dedupeSarifByRule(results)] >>]

-----------------------------------------------------------------------------
(* Harness of the score engine: the inputs are drawn in the initial state, *)
(* Reorder permutes the findings, the Score actions apply the two          *)
(* implementations to the original and to the reordered findings.          *)

MaxFindings == 3
MaxRun == 10
MaxAnomalies == 17
SmallAnomalies == 2

sInfo == <<"i","n","f","o">>
sPipe == <<"p","1">>

SevValues ==
    { Undef,
      JStr(sCritical), JStr(<<"C","r","i","t","i","c","a","l">>),
      JStr(<<"H","I","G","H">>), JStr(sMedium), JStr(sLow),
      JStr(sInfo), JNum(<<"7">>) }

SevFinding(sev) == Finding(JStr(<<"R","1">>), JStr(<<"T">>), Undef, sev)

ScoreInputs ==
    { [findings |-> fs, anomalyCount |-> n] :
        fs \in SeqsUpTo({SevFinding(s) : s \in SevValues}, MaxFindings),
        n \in 0..SmallAnomalies }
    \cup
    { [findings |-> [i \in 1..k |-> SevFinding(s)], anomalyCount |-> n] :
        k \in 0..MaxRun, s \in SevValues, n \in 0..MaxAnomalies }

\* the findings as the rows a query returns them: the newer row holds the
\* first half as a JSON array, the older row the rest as a string to parse
rowsOf(fs) ==
    LET h == Len(fs) \div 2 IN
    << Row(2, sPipe, 2, "array", SubSeq(fs, 1, h)),
       Row(1, sPipe, 1, "strArray", SubSeq(fs, h + 1, Len(fs))) >>

NoOutput == [by |-> "none"]

IdleServer ==
    /\ db = <<>>
    /\ files = <<>>
    /\ inflight = <<>>
    /\ resp = <<>>
    /\ hist = <<>>

InitScore ==
    /\ \E i \in ScoreInputs :
          input = [findings |-> i.findings, perm |-> i.findings,
                   anomalyCount |-> i.anomalyCount]
    /\ output = NoOutput
    /\ IdleServer

Reorder ==
    /\ output.by = "none"
    /\ \E i \in 1..(Len(input.perm) - 1) :
          input' = [input EXCEPT !.perm =
                        [input.perm EXCEPT ![i] = input.perm[i + 1],
                                           ![i + 1] = input.perm[i]]]
    /\ UNCHANGED <<output, db, files, inflight, resp, hist>>

ScoreReport ==
    /\ output.by = "none"
    /\ output' = [by |-> "report",
                  orig |-> computeScore(rowsOf(input.findings), input.anomalyCount),
                  re |-> computeScore(rowsOf(input.perm), input.anomalyCount)]
    /\ UNCHANGED <<input, db, files, inflight, resp, hist>>

ScoreDashboard ==
    /\ output.by = "none"
    /\ output' = [by |-> "dashboard",
                  orig |-> computeScoreFromAlerts(
                               vulnRowsToAlerts(rowsOf(input.findings)),
                               input.anomalyCount),
                  re |-> computeScoreFromAlerts(
                               vulnRowsToAlerts(rowsOf(input.perm)),
                               input.anomalyCount)]
    /\ UNCHANGED <<input, db, files, inflight, resp, hist>>

NextScore == Reorder \/ ScoreReport \/ ScoreDashboard

SpecScore == InitScore /\ [][NextScore]_vars

-----------------------------------------------------------------------------
(* Claims about the score engine (SpecScore)                               *)

Scored == output.by # "none"

ValueOf(r) == IF output.by = "report" THEN r.score ELSE r.value

DetailsOf(r) ==
    IF output.by = "report"
    THEN [totalFindings |-> r.stats.totalFindings,
          totalRisk |-> r.stats.totalRisk,
          anomalyCount |-> r.stats.anomalyCount,
          vulnPenalty |-> r.penalty.vulnPenalty,
          anomalyPenalty |-> r.penalty.anomalyPenalty]
    ELSE r.details

SameIgnoringCase(a, b) ==
    /\ Len(a) = Len(b)
    /\ \A i \in DOMAIN a : UpperChar(a[i]) = UpperChar(b[i])

IsSeverity(sev, name) == sev.t = "str" /\ SameIgnoringCase(sev.v, name)

ClaimedWeight(sev) ==
    CASE IsSeverity(sev, sCritical) -> 10
      [] IsSeverity(sev, sHigh) -> 7
      [] IsSeverity(sev, sMedium) -> 4
      [] OTHER -> 1

ClaimedRisk(fs) == SumSeq([i \in DOMAIN fs |-> ClaimedWeight(fs[i].severity)])

Clamp(lo, hi, x) == IF x < lo THEN lo ELSE IF x > hi THEN hi ELSE x

ClaimedDetails(fs, n) ==
    [totalFindings |-> Len(fs), totalRisk |-> ClaimedRisk(fs), anomalyCount |-> n,
     vulnPenalty |-> Min(80, 2 * ClaimedRisk(fs)),
     anomalyPenalty |-> Min(30, 2 * n)]

ClaimedValue(fs, n) ==
    Clamp(0, 100, 100 - ClaimedDetails(fs, n).vulnPenalty
                      - ClaimedDetails(fs, n).anomalyPenalty)

\* C1: for every finding sequence and anomaly count, the score of both
\* implementations is an integer in [0,100] and is the same for the findings
\* and for any reordering of them.
C1_ScoreBoundedOrderFree ==
    Scored =>
        /\ ValueOf(output.orig) \in 0..100
        /\ ValueOf(output.re) \in 0..100
        /\ ValueOf(output.orig) = ValueOf(output.re)

\* C1 witness: a score was computed for findings of different weights that
\* were put in another order.
C1_Witness ==
    /\ Scored
    /\ input.perm # input.findings
    /\ \E i, j \in DOMAIN input.findings :
          ClaimedWeight(input.findings[i].severity)
              # ClaimedWeight(input.findings[j].severity)

\* C2: the value is clamp(0, 100, round(100 - min(80, 2*totalRisk) -
\* min(30, 2*anomalyCount))), totalRisk the sum of the weights critical=10,
\* high=7, medium=4, anything else=1 (case-insensitive), and the returned
\* details are these intermediate values.
C2_ScoreFormula ==
    Scored =>
        /\ ValueOf(output.orig) = ClaimedValue(input.findings, input.anomalyCount)
        /\ DetailsOf(output.orig) = ClaimedDetails(input.findings, input.anomalyCount)
        /\ ValueOf(output.re) = ClaimedValue(input.perm, input.anomalyCount)
        /\ DetailsOf(output.re) = ClaimedDetails(input.perm, input.anomalyCount)

\* C2 witness: a score was computed for findings that hold an upper-case
\* severity, an unknown one and a missing one, with anomalies.
C2_Witness ==
    /\ Scored
    /\ input.anomalyCount > 0
    /\ \E i, j, k \in DOMAIN input.findings :
          /\ input.findings[i].severity = JStr(<<"H","I","G","H">>)
          /\ input.findings[j].severity = JStr(sInfo)
          /\ input.findings[k].severity = Undef

OnlyCritical(fs) == \A i \in DOMAIN fs : fs[i].severity = JStr(sCritical)

\* C3: the two penalties are capped on their own: no findings and no
\* anomalies score 100; n >= 8
\* critical findings alone score 20 and no finding-only input scores lower;
\* m >= 15 anomalies alone score 70 and no anomaly-only input scores lower.
C3_IndependentCaps ==
    Scored =>
        LET v == ValueOf(output.orig)
            fs == input.findings
            n == input.anomalyCount
        IN  /\ (fs = <<>> /\ n = 0) => v = 100
            /\ (n = 0 /\ OnlyCritical(fs) /\ Len(fs) >= 8) => v = 20
            /\ n = 0 => v >= 20
            /\ (fs = <<>> /\ n >= 15) => v = 70
            /\ fs = <<>> => v >= 70

\* C3 witness: more than eight criticals alone were scored by the dashboard.
C3_Witness ==
    /\ output.by = "dashboard"
    /\ input.anomalyCount = 0
    /\ OnlyCritical(input.findings)
    /\ Len(input.findings) > 8
    /\ ValueOf(output.orig) = 20

-----------------------------------------------------------------------------
(* Harness of the SARIF exporter: a vuln_reports table is drawn in the     *)
(* initial state; ExportSarif runs the row query of generateReport and     *)
(* toSarif on its rows.                                                    *)

MaxSarifFindings == 3
MaxLevelFindings == 2

sOther == <<"q","9">>

RuleValues ==
    { Undef, JStr(<<>>), JStr(<<" ">>),
      JStr(<<"R","1">>), JStr(<<" ","R","1">>), JStr(<<"R","2">>),
      JStr(sDefaultRule) }

\* findings that differ in their rule_id; the title tells the position
RuleFindings ==
    UNION { { [i \in 1..k |->
                 Finding(rs[i], JStr(<<"T", DigitChars[i + 1]>>), Undef,
                         JStr(sHigh))] : rs \in [1..k -> RuleValues] } :
            k \in 0..MaxSarifFindings }

\* findings that differ in their severity; rule_id and title tell the position
LevelFindings ==
    UNION { { [i \in 1..k |->
                 Finding(JStr(<<"L", DigitChars[i + 1]>>),
                         JStr(<<"T", DigitChars[i + 1]>>),
                         JStr(<<"d">>), ss[i])] : ss \in [1..k -> SevValues] } :
            k \in 0..MaxLevelFindings }

\* the table holds the findings in two rows of the pipeline, the newer one
\* with the first half, and a row of another pipeline; `swap` is the order
\* the rows were stored in
tableOf(fs, swap) ==
    LET h == (Len(fs) + 1) \div 2
        newer == Row(2, sPipe, 3, "array", SubSeq(fs, 1, h))
        older == Row(1, sPipe, 1, "strArray", SubSeq(fs, h + 1, Len(fs)))
        other == Row(3, sOther, 2, "array",
                     <<Finding(JStr(<<"R","X">>), JStr(<<"T","X">>), Undef,
                               JStr(sCritical))>>)
    IN  IF swap THEN <<older, other, newer>> ELSE <<newer, other, older>>

SarifInputs ==
    { [table |-> tableOf(fs, swap), pipelineId |-> sPipe, mode |-> m] :
        fs \in RuleFindings \cup LevelFindings,
        swap \in BOOLEAN, m \in {sAll, sLatest} }

NoDoc == [version |-> <<>>, runs |-> <<>>]

InitSarif ==
    /\ input \in SarifInputs
    /\ output = NoOutput
    /\ IdleServer

ExportSarif ==
    /\ output.by = "none"
    /\ LET vulnRows == vulnQuery(input.table, input.pipelineId, limitFor(input.mode))
       IN  output' = IF toSarifThrows(vulnRows)
                     THEN [by |-> "sarif", threw |-> TRUE, doc |-> NoDoc]
                     ELSE [by |-> "sarif", threw |-> FALSE,
                           doc |-> toSarif(input.pipelineId, vulnRows)]
    /\ UNCHANGED <<input, db, files, inflight, resp, hist>>

NextSarif == ExportSarif

SpecSarif == InitSarif /\ [][NextSarif]_vars

-----------------------------------------------------------------------------
(* Claims about the SARIF exporter (SpecSarif)                             *)

SarifWritten == output.by = "sarif" /\ ~output.threw

Results == output.doc.runs[1].results

\* the rows of the pipeline, newest first, as many as the mode allows
ClaimedRows ==
    LET mine == {r \in Range(input.table) : r.pipeline = input.pipelineId}
        sorted == CHOOSE q \in [1..Cardinality(mine) -> mine] :
                     \A i, j \in DOMAIN q : i < j => q[i].created_at > q[j].created_at
    IN  IF input.mode = sLatest THEN SubSeq(sorted, 1, Min(1, Len(sorted)))
        ELSE sorted

\* the findings in normalizer order
ClaimedFindings == Flatten([i \in DOMAIN ClaimedRows |-> ClaimedRows[i].findings.items])

HasRule(f, rid) == f.rule_id = JStr(rid)

NonEmptyRule(f) == f.rule_id.t = "str" /\ f.rule_id.v # <<>>

\* C4: the document holds at most one result per ruleId, and that result is
\* the one built from the first finding with that rule_id in normalizer order.
C4_FirstPerRule ==
    SarifWritten =>
        /\ \A i, j \in DOMAIN Results :
              i # j => Results[i].ruleId # Results[j].ruleId
        /\ \A i \in DOMAIN Results :
              \E k \in DOMAIN ClaimedFindings :
                  /\ HasRule(ClaimedFindings[k], Results[i].ruleId)
                  /\ \A j \in 1..(k - 1) :
                        ~HasRule(ClaimedFindings[j], Results[i].ruleId)
                  /\ Results[i].message.text = sarifMessage(ClaimedFindings[k])

\* C5: a finding with an empty or missing rule_id never appears in the
\* results: there are as many results as distinct non-empty rule_id values.
C5_EmptyRuleDropped ==
    SarifWritten =>
        /\ \A i \in DOMAIN Results :
              \A k \in DOMAIN ClaimedFindings :
                  Results[i].message.text = sarifMessage(ClaimedFindings[k])
                      => NonEmptyRule(ClaimedFindings[k])
        /\ Len(Results) =
              Cardinality({ClaimedFindings[k].rule_id.v :
                              k \in {n \in DOMAIN ClaimedFindings :
                                        NonEmptyRule(ClaimedFindings[n])}})

ClaimedLevel(sev) ==
    CASE IsSeverity(sev, sCritical) \/ IsSeverity(sev, sHigh) -> sError
      [] IsSeverity(sev, sMedium) -> sWarning
      [] OTHER -> sNote

\* C6: every result has level error, warning or note, chosen from the
\* severity case-insensitively (critical/high error, medium warning, the
\* rest note); the document has version 2.1.0, one run and the fixed driver.
C6_Levels ==
    SarifWritten =>
        /\ output.doc.version = sVersion
        /\ Len(output.doc.runs) = 1
        /\ output.doc.runs[1].tool.driver.name = sToolName
        /\ \A i \in DOMAIN Results :
              /\ Results[i].level \in {sError, sWarning, sNote}
              /\ \E k \in DOMAIN ClaimedFindings :
                    /\ Results[i].message.text = sarifMessage(ClaimedFindings[k])
                    /\ Results[i].level = ClaimedLevel(ClaimedFindings[k].severity)

\* C6 witness: a document with an error result of an upper-case HIGH finding
\* and a note result of a finding without severity.
C6_Witness ==
    /\ SarifWritten
    /\ \E i, j \in DOMAIN Results : \E k, l \in DOMAIN ClaimedFindings :
          /\ Results[i].message.text = sarifMessage(ClaimedFindings[k])
          /\ ClaimedFindings[k].severity = JStr(<<"H","I","G","H">>)
          /\ Results[i].level = sError
          /\ Results[j].message.text = sarifMessage(ClaimedFindings[l])
          /\ ClaimedFindings[l].severity = Undef
          /\ Results[j].level = sNote

-----------------------------------------------------------------------------
(* Harness of identifier validation: a route parameter is drawn in the     *)
(* initial state and Validate applies safePipelineId to it.                *)

MaxIdChars == 3

IdAlphabet == {"a", "Z", "5", ".", "_", "-", "/", " "}

sTraversal == <<".",".","/",".",".","/","e","t","c">>
sDemo == <<"d","e","m","o","-","p","i","p","e","l","i","n","e","_","0","1">>

IdInputs ==
    SeqsUpTo(IdAlphabet, MaxIdChars)
    \cup { pre \o Repeat(c, n) \o post :
             c \in {"a", "."}, n \in {1, 2, 79, 80, 81, 200},
             pre \in {<<>>, <<" ">>, <<"\n", " ">>},
             post \in {<<>>, <<" ">>, <<"/">>, <<"\t">>} }
    \cup { sTraversal, sDemo, <<" ">> \o sDemo \o <<"\n">> }

InitId ==
    /\ input \in {JStr(s) : s \in IdInputs}
    /\ output = NoOutput
    /\ IdleServer

Validate ==
    /\ output.by = "none"
    /\ output' = [by |-> "id", ret |-> safePipelineId(input)]
    /\ UNCHANGED <<input, db, files, inflight, resp, hist>>

NextId == Validate

SpecId == InitId /\ [][NextId]_vars

-----------------------------------------------------------------------------
(* Claims about identifier validation (SpecId)                             *)

\* s without its leading and trailing whitespace, by positions
ClaimedTrim(s) ==
    LET solid == {i \in DOMAIN s : s[i] \notin WhiteSpace} IN
    IF solid = {} THEN <<>>
    ELSE LET lo == CHOOSE i \in solid : \A j \in solid : i <= j
             hi == CHOOSE i \in solid : \A j \in solid : i >= j
         IN  [k \in 1..(hi - lo + 1) |-> s[lo + k - 1]]

IsLetter(c) == c \in Range(LowerChars) \/ c \in Range(UpperChars)
IsDigit(c) == c \in Range(DigitChars)

ClaimedAccept(s) ==
    LET t == ClaimedTrim(s) IN
    /\ Len(t) >= 2
    /\ Len(t) <= 80
    /\ \A i \in DOMAIN t : IsLetter(t[i]) \/ IsDigit(t[i]) \/ t[i] \in {".", "_", "-"}

\* C7: safePipelineId accepts exactly the inputs that, trimmed, are 2 to 80
\* characters long and made of letters, digits, '.', '_' and '-'; it returns
\* the trimmed string; "../../etc", "" and 200 characters are rejected and
\* "demo-pipeline_01" is returned unchanged.
C7_IdentifierAccepted ==
    output.by = "id" =>
        /\ (output.ret # Undef) <=> ClaimedAccept(input.v)
        /\ output.ret # Undef => output.ret = JStr(ClaimedTrim(input.v))
        /\ input.v \in {sTraversal, <<>>, Repeat("a", 200)} => output.ret = Undef
        /\ input.v = sDemo => output.ret = JStr(sDemo)

\* C7 witness: an identifier of exactly 80 characters, padded with
\* whitespace, was accepted and returned trimmed.
C7_Witness ==
    /\ output.by = "id"
    /\ input.v = <<" ">> \o Repeat("a", 80) \o <<"\t">>
    /\ output.ret = JStr(Repeat("a", 80))

-----------------------------------------------------------------------------
(* The report-generator service.  Node runs one handler at a time, so a    *)
(* step is the code between two awaits.  A generate or zip request         *)
(* suspends at each pool.query and at the end of the PDF stream; the       *)
(* download routes are synchronous.                                        *)

MaxInflight == 2
MaxRequests == 2
MaxReports == 2

FixCap == 50
PdfRowCap == 10

Slots == 1..MaxInflight
Exts == {sHtml, sPdf, sSarif}

\* a pipeline whose name starts with a dot
sDotPipe == <<".", "x">>

\* pipelines the detectors write reports for
DbPipelines == {sPipe, sDotPipe}

\* req.params.pipelineId as clients send it
RawIds == {sPipe, sDotPipe, <<".", ".", "/", "x">>}

\* req.query.mode as clients send it
RawModes == {Undef, JStr(sLatest), JStr(<<"A","L","L">>)}

\* the findings the detector stores with its n-th report: reports differ in
\* their rules, so that the rows used show in every artifact
StoredFindings(n) ==
    CASE n = 1 -> <<Finding(JStr(<<"R","1">>), JStr(<<"A">>), Undef, JStr(sHigh))>>
      [] n = 2 -> <<Finding(JStr(<<"R","2">>), JStr(<<"B">>), Undef, JStr(sCritical))>>
      [] OTHER -> <<Finding(JStr(<<"R","1">>), JStr(<<"C">>), Undef, JStr(sLow)),
                    Finding(Undef, JStr(<<"D">>), Undef, JStr(sMedium))>>

\* fix_reports holds one row; anomaly_reports one anomaly, of the first pipeline
StoredFixes == Cardinality({sPipe})
StoredAnomalies == [p \in DbPipelines |-> IF p = sPipe THEN Cardinality({sPipe}) ELSE 0]

NoFile == [kind |-> "none"]

Paths == {filePathFor(p, e) : p \in DbPipelines, e \in Exts}

IdleReq ==
    [pc |-> "idle", kind |-> "none", pipelineId |-> <<>>,
     mode |-> sAll, vulnRows |-> <<>>, fixRows |-> <<>>, anomalyCount |-> 0,
     entries |-> <<>>, steady |-> TRUE, conn |-> "open"]

NoResp == [route |-> "none", status |-> 0]

\* the response sent last has reached its client
Quiet == resp = NoResp


NoGen == [mode |-> <<>>, rows |-> <<>>, before |-> <<>>]

InitHist ==
    [started |-> 0, written |-> {}, generated |-> {},
     last |-> [p \in DbPipelines |-> NoGen],
     clean |-> [p \in DbPipelines |-> TRUE],
     outcomes |-> [p \in DbPipelines |-> {}],
     repeated |-> {}]

Init ==
    /\ input = <<>>
    /\ output = NoOutput
    /\ db = [vuln |-> <<>>, fixes |-> StoredFixes, anomalies |-> StoredAnomalies,
             fixRelation |-> TRUE]
    /\ files = [p \in Paths |-> NoFile]
    /\ inflight = [s \in Slots |-> IdleReq]
    /\ resp = NoResp
    /\ hist = InitHist

\* ---- the producers of the rows (vuln-detector, fix-suggester, anomaly-detector)

InsertReport ==
    /\ Quiet
    /\ Len(db.vuln) < MaxReports
    /\ \E p \in DbPipelines :
          db' = [db EXCEPT !.vuln =
                    Append(@, Row(Len(@) + 1, p, Len(@) + 1, "array",
                                  StoredFindings(Len(@) + 1)))]
    /\ inflight' = [s \in Slots |-> [inflight[s] EXCEPT
                        !.steady = @ /\ inflight[s].pc = "idle"]]
    /\ hist' = [hist EXCEPT !.outcomes = [p \in DbPipelines |-> {}],
                            !.repeated = {}]
    /\ UNCHANGED <<input, output, files, resp>>

\* SELECT ... FROM fix_reports ORDER BY created_at DESC LIMIT 50: the ids
fixQuery(n) == [i \in 1..Min(n, FixCap) |-> n - i + 1]

\* an anomaly count that grows with every request accepted
anomalyQueryCumulative(anomalies, pipelineId) ==
    hist.started + (IF pipelineId \in DOMAIN anomalies THEN anomalies[pipelineId] ELSE 0)

\* SELECT COUNT(*) FROM anomaly_reports WHERE pipeline_id=$1 AND is_anomaly
anomalyQuery(anomalies, pipelineId) ==
    IF pipelineId \in DOMAIN anomalies THEN anomalies[pipelineId] ELSE 0

\* ---- the file system

\* fs.writeFileSync that leaves an existing file alone
writeFileIfAbsent(fsys, path, content) ==
    IF fsys[path] = NoFile THEN [fsys EXCEPT ![path] = content] ELSE fsys

\* fs.writeFileSync(path, content)
writeFile(fsys, path, content) == [fsys EXCEPT ![path] = content]

existsSync(fsys, path) == path \in DOMAIN fsys /\ fsys[path] # NoFile

\* ---- artifacts

htmlOf(r, scoreObj) ==
    [kind |-> "html", pipeline |-> r.pipelineId, score |-> scoreObj.score,
     stats |-> scoreObj.stats, penalties |-> scoreObj.penalty,
     vulns |-> [i \in DOMAIN r.vulnRows |->
                   [id |-> r.vulnRows[i].id,
                    findings |-> parseFindings(r.vulnRows[i])]],
     fixes |-> r.fixRows, anomalies |-> r.anomalyCount, mode |-> r.mode]

\* a renderPdf that has the file to itself
pdfOfExclusive(r, scoreObj, slot, old) ==
    [kind |-> "pdf", pipeline |-> r.pipelineId, score |-> scoreObj.score,
     stats |-> scoreObj.stats,
     vulns |-> [i \in 1..Min(PdfRowCap, Len(r.vulnRows)) |->
                   [id |-> r.vulnRows[i].id,
                    findings |-> parseFindings(r.vulnRows[i])]],
     fixes |-> SubSeq(r.fixRows, 1, Min(PdfRowCap, Len(r.fixRows))),
     anomalies |-> r.anomalyCount,
     writers |-> {slot},
     torn |-> FALSE]

\* what renderPdf draws; `writers` are the requests whose stream is open on
\* the file, `torn` says that two streams wrote it at once
pdfOf(r, scoreObj, slot, old) ==
    [kind |-> "pdf", pipeline |-> r.pipelineId, score |-> scoreObj.score,
     stats |-> scoreObj.stats,
     vulns |-> [i \in 1..Min(PdfRowCap, Len(r.vulnRows)) |->
                   [id |-> r.vulnRows[i].id,
                    findings |-> parseFindings(r.vulnRows[i])]],
     fixes |-> SubSeq(r.fixRows, 1, Min(PdfRowCap, Len(r.fixRows))),
     anomalies |-> r.anomalyCount,
     writers |-> IF old.kind = "pdf" THEN old.writers \cup {slot} ELSE {slot},
     torn |-> old.kind = "pdf" /\ old.writers # {}]

\* a SARIF file built from rows fetched again when it is written
sarifOfRefetched(r) ==
    [kind |-> "sarif",
     doc |-> toSarif(r.pipelineId,
                     vulnQuery(db.vuln, r.pipelineId, limitFor(r.mode)))]

sarifOf(r) == [kind |-> "sarif", doc |-> toSarif(r.pipelineId, r.vulnRows)]

GenPcs == {"q1", "q2", "q3", "pdf"}

\* a generateReport call for the pipeline is under way
Generating(pipelineId) ==
    \E s \in Slots : inflight[s].pc \in GenPcs /\ inflight[s].pipelineId = pipelineId

FreeSlot(s) ==
    /\ inflight[s].pc = "idle"
    /\ \A t \in 1..(s - 1) : inflight[t].pc # "idle"

\* a response and what the request did before it was sent (effects: "query"
\* a datastore query, "path" an artifact path, "fs" a file-system call)
Resp(route, raw, status, effects, body) ==
    [route |-> route, raw |-> raw, status |-> status, effects |-> effects,
     body |-> body]

NoBody == [kind |-> "none"]

Deliver ==
    /\ resp # NoResp
    /\ resp' = NoResp
    /\ UNCHANGED <<input, output, db, files, inflight, hist>>

\* ---- GET /report/:pipelineId and GET /report/:pipelineId/zip

\* the handler up to its first await: validation, then the query is issued
Receive(s, kind, raw, q) ==
    /\ Quiet
    /\ FreeSlot(s)
    /\ hist.started < MaxRequests
    /\ LET pipelineId == safePipelineId(JStr(raw)) IN
       IF pipelineId = Undef
       THEN /\ resp' = Resp(kind, raw, 400, {}, NoBody)
            /\ UNCHANGED <<inflight, hist>>
       ELSE /\ inflight' = [inflight EXCEPT ![s] =
                               [IdleReq EXCEPT !.pc = "q1", !.kind = kind,
                                               !.pipelineId = pipelineId.v,
                                               !.mode = modeOf(q)]]
            /\ hist' = [hist EXCEPT
                           !.started = @ + 1,
                           !.clean[pipelineId.v] = @ /\ ~Generating(pipelineId.v)]
            /\ UNCHANGED resp
    /\ UNCHANGED <<input, output, db, files>>

\* generateReport: the vuln_reports query returns
QueryVuln(s) ==
    /\ Quiet
    /\ inflight[s].pc = "q1"
    /\ inflight' = [inflight EXCEPT ![s].pc = "q2",
                       ![s].vulnRows = vulnQuery(db.vuln, inflight[s].pipelineId,
                                                 limitFor(inflight[s].mode))]
    /\ UNCHANGED <<input, output, db, files, resp, hist>>

\* generateReport: the fix_reports query returns.  Where the relation does
\* not exist the query rejects (42P01); nothing catches it, asyncHandler
\* hands it to the global handler
QueryFixes(s) ==
    /\ Quiet
    /\ inflight[s].pc = "q2"
    /\ IF db.fixRelation
       THEN /\ inflight' = [inflight EXCEPT ![s].pc = "q3",
                                           ![s].fixRows = fixQuery(db.fixes)]
            /\ UNCHANGED resp
       ELSE /\ resp' = Resp(inflight[s].kind, inflight[s].pipelineId, 500,
                            {"query"}, NoBody)
            /\ inflight' = [inflight EXCEPT ![s] = IdleReq]
    /\ UNCHANGED <<input, output, db, files, hist>>

\* generateReport: the anomaly count returns; the score and the HTML are
\* computed, the HTML is written and the PDF stream is opened
QueryAnomalies(s) ==
    /\ Quiet
    /\ inflight[s].pc = "q3"
    /\ LET r == [inflight[s] EXCEPT !.anomalyCount =
                    anomalyQuery(db.anomalies, inflight[s].pipelineId)]
           scoreObj == computeScore(r.vulnRows, r.anomalyCount)
           pdfPath == filePathFor(r.pipelineId, sPdf)
           htmlPath == filePathFor(r.pipelineId, sHtml)
           withHtml == writeFile(files, htmlPath, htmlOf(r, scoreObj))
       IN  /\ files' = writeFile(withHtml, pdfPath,
                                 pdfOf(r, scoreObj, s, files[pdfPath]))
           /\ inflight' = [inflight EXCEPT ![s] = [r EXCEPT !.pc = "pdf"]]
           /\ hist' = [hist EXCEPT !.written =
                          @ \cup {<<r.pipelineId, sHtml>>, <<r.pipelineId, sPdf>>}]
    /\ UNCHANGED <<input, output, db, resp>>

\* a pool.query rejects: asyncHandler hands the error to the global handler
QueryFail(s) ==
    /\ Quiet
    /\ inflight[s].pc \in {"q1", "q2", "q3"}
    /\ resp' = Resp(inflight[s].kind, inflight[s].pipelineId, 500, {"query"}, NoBody)
    /\ inflight' = [inflight EXCEPT ![s] = IdleReq]
    /\ UNCHANGED <<input, output, db, files, hist>>

\* fs.writeFileSync(htmlPath, ...) throws because the file cannot be opened:
\* nothing is written, the error goes to the global handler
HtmlWriteFail(s) ==
    /\ Quiet
    /\ inflight[s].pc = "q3"
    /\ resp' = Resp(inflight[s].kind, inflight[s].pipelineId, 500,
                    {"query", "path", "fs"}, NoBody)
    /\ inflight' = [inflight EXCEPT ![s] = IdleReq]
    /\ UNCHANGED <<input, output, db, files, hist>>

\* the PDF stream emits an error: renderPdf rejects, the error goes to the
\* global handler; the HTML is written already and the PDF is left as far as
\* the stream got
PdfFail(s) ==
    /\ Quiet
    /\ inflight[s].pc = "pdf"
    /\ LET pdfPath == filePathFor(inflight[s].pipelineId, sPdf) IN
       files' = [files EXCEPT ![pdfPath].writers = @ \ {s},
                              ![pdfPath].torn = TRUE]
    /\ resp' = Resp(inflight[s].kind, inflight[s].pipelineId, 500,
                    {"query", "path", "fs"}, NoBody)
    /\ inflight' = [inflight EXCEPT ![s] = IdleReq]
    /\ hist' = [hist EXCEPT !.clean[inflight[s].pipelineId] = FALSE]
    /\ UNCHANGED <<input, output, db>>

\* the PDF stream finishes; the SARIF is built and written; /report answers,
\* /zip goes on to the archive
PdfFinish(s) ==
    /\ Quiet
    /\ inflight[s].pc = "pdf"
    /\ LET r == inflight[s]
           pdfPath == filePathFor(r.pipelineId, sPdf)
           sarifPath == filePathFor(r.pipelineId, sSarif)
           closed == [files EXCEPT ![pdfPath].writers = @ \ {s}]
           effects == {"query", "path", "fs"}
           gen == [mode |-> r.mode, rows |-> r.vulnRows,
                   before |-> hist.last[r.pipelineId].mode]
           scoreObj == computeScore(r.vulnRows, r.anomalyCount)
           outcome == [mode |-> r.mode,
                       score |-> scoreObj.score, stats |-> scoreObj.stats,
                       results |-> sarifOf(r).doc.runs[1].results]
           same == {o \in hist.outcomes[r.pipelineId] : o.mode = r.mode}
           outcomes == IF r.steady
                       THEN [hist.outcomes EXCEPT ![r.pipelineId] = @ \cup {outcome}]
                       ELSE hist.outcomes
           repeated == IF r.steady /\ same # {}
                       THEN hist.repeated \cup {r.pipelineId}
                       ELSE hist.repeated
       IN  IF toSarifThrows(r.vulnRows)
           THEN /\ files' = closed
                /\ resp' = Resp(r.kind, r.pipelineId, 500, effects, NoBody)
                /\ inflight' = [inflight EXCEPT ![s] = IdleReq]
                /\ hist' = [hist EXCEPT !.clean[r.pipelineId] = FALSE]
           ELSE /\ files' = writeFile(closed, sarifPath, sarifOf(r))
                /\ IF r.kind = "generate"
                   THEN /\ resp' = Resp(r.kind, r.pipelineId, 200, effects,
                                        [kind |-> "json",
                                         score |-> scoreObj.score,
                                         stats |-> scoreObj.stats,
                                         mode |-> r.mode])
                        /\ inflight' = [inflight EXCEPT ![s] = IdleReq]
                        /\ hist' = [hist EXCEPT
                                       !.written = @ \cup {<<r.pipelineId, sSarif>>},
                                       !.generated = @ \cup {r.pipelineId},
                                       !.last[r.pipelineId] = gen,
                                       !.outcomes = outcomes,
                                       !.repeated = repeated]
                   ELSE /\ inflight' = [inflight EXCEPT ![s].pc = "zip"]
                        /\ hist' = [hist EXCEPT
                                       !.written = @ \cup {<<r.pipelineId, sSarif>>},
                                       !.last[r.pipelineId] = gen,
                                       !.outcomes = outcomes,
                                       !.repeated = repeated]
                        /\ UNCHANGED resp
    /\ UNCHANGED <<input, output, db>>

ZipOrder == <<sHtml, sPdf, sSarif>>

\* the archiver reads the next queued file; after the third the archive is
\* finalized and the response ends
ZipEntry(s) ==
    /\ Quiet
    /\ inflight[s].pc = "zip"
    /\ inflight[s].conn = "open"
    /\ LET r == inflight[s]
           ext == ZipOrder[Len(r.entries) + 1]
           entries == Append(r.entries,
                             [name |-> r.pipelineId \o <<".">> \o ext,
                              content |-> files[filePathFor(r.pipelineId, ext)]])
       IN  IF Len(entries) < Len(ZipOrder)
           THEN /\ inflight' = [inflight EXCEPT ![s].entries = entries]
                /\ UNCHANGED resp
           ELSE /\ inflight' = [inflight EXCEPT ![s] = IdleReq]
                /\ resp' = Resp(r.kind, r.pipelineId, 200, {"query", "path", "fs"},
                                [kind |-> "zip", mode |-> r.mode,
                                 entries |-> entries])
    /\ UNCHANGED <<input, output, db, files, hist>>

\* the client closes the connection of a request.  The zip handler
\* registers res.on("close") after generateReport has returned: while the
\* archive streams the listener aborts it; a close that comes while the
\* generation runs finds no listener and the generation goes on
ClientClose(s) ==
    /\ Quiet
    /\ inflight[s].pc \in GenPcs \cup {"zip"}
    /\ inflight[s].conn = "open"
    /\ inflight' = IF inflight[s].pc = "zip"
                   THEN [inflight EXCEPT ![s] = IdleReq]
                   ELSE [inflight EXCEPT ![s].conn = "closed"]
    /\ UNCHANGED <<input, output, db, files, resp, hist>>

\* archive.pipe(res) on a response whose connection is closed: the first
\* write is refused, no drain follows and the archive stays paused; nothing
\* aborts it, the close event has passed
ZipBlocked(s) ==
    /\ Quiet
    /\ inflight[s].pc = "zip"
    /\ inflight[s].conn = "closed"
    /\ inflight' = [inflight EXCEPT ![s].pc = "stalled"]
    /\ UNCHANGED <<input, output, db, files, resp, hist>>

\* the archive emits an error: the handler sets 500 if no header was sent
\* and ends the response
ZipError(s) ==
    /\ Quiet
    /\ inflight[s].pc = "zip"
    /\ inflight[s].conn = "open"
    /\ resp' = Resp("zip", inflight[s].pipelineId,
                     IF inflight[s].entries = <<>> THEN 500 ELSE 200,
                     {"query", "path", "fs"},
                     [kind |-> "zip", mode |-> inflight[s].mode,
                      entries |-> inflight[s].entries])
    /\ inflight' = [inflight EXCEPT ![s] = IdleReq]
    /\ UNCHANGED <<input, output, db, files, hist>>

\* ---- GET /report/:pipelineId/{pdf,html,sarif}

\* res.sendFile(p) is called without options: a file whose name starts with a
\* dot is refused with an error, which goes to the global error handler
sendFileRefuses(path) == path[Len(sReportsDir) + 2] = "."

\* the answer of a download handler over the file system fsys
downloadFrom(fsys, raw, ext) ==
    LET pipelineId == safePipelineId(JStr(raw)) IN
    IF pipelineId = Undef THEN Resp(ext, raw, 400, {}, NoBody)
    ELSE LET p == filePathFor(pipelineId.v, ext) IN
         IF ~existsSync(fsys, p) THEN Resp(ext, raw, 404, {"path", "fs"}, NoBody)
         ELSE IF ext = sPdf /\ sendFileRefuses(p)
         THEN Resp(ext, raw, 500, {"path", "fs"}, NoBody)
         ELSE Resp(ext, raw, 200, {"path", "fs"}, fsys[p])

\* a download handler that looks the file up before it validates
downloadProbeFirst(raw, ext) ==
    LET p == filePathFor(Trim(raw), ext) IN
    IF ~existsSync(files, p) THEN Resp(ext, raw, 404, {"path", "fs"}, NoBody)
    ELSE IF safePipelineId(JStr(raw)) = Undef
    THEN Resp(ext, raw, 400, {"path", "fs"}, NoBody)
    ELSE Resp(ext, raw, 200, {"path", "fs"}, files[p])

\* the answer of a download handler to a request that arrives now: the
\* handler is synchronous and reads the state only
download(raw, ext) == downloadFrom(files, raw, ext)

\* a download is served: it leaves the service as it was
Download(raw, ext) ==
    /\ Quiet
    /\ download(raw, ext).status \in {200, 400, 404, 500}
    /\ UNCHANGED vars

Next ==
    \/ InsertReport
    \/ \E s \in Slots, kind \in {"generate", "zip"}, raw \in RawIds, q \in RawModes :
          Receive(s, kind, raw, q)
    \/ \E s \in Slots : QueryVuln(s)
    \/ \E s \in Slots : QueryFixes(s)
    \/ \E s \in Slots : QueryAnomalies(s)
    \/ \E s \in Slots : QueryFail(s)
    \/ \E s \in Slots : PdfFinish(s)
    \/ \E s \in Slots : ZipEntry(s)
    \/ \E raw \in RawIds, ext \in Exts : Download(raw, ext)
    \/ Deliver

Spec == Init /\ [][Next]_vars

\* zip requests, one at a time, whose client may go away.  Node runs every
\* callback that is ready, so the steps of the server are weakly fair;
\* clients and detectors owe nothing
NextZip ==
    \/ InsertReport
    \/ \E q \in RawModes : Receive(1, "zip", sPipe, q)
    \/ \E s \in Slots : QueryVuln(s)
    \/ \E s \in Slots : QueryFixes(s)
    \/ \E s \in Slots : QueryAnomalies(s)
    \/ \E s \in Slots : PdfFinish(s)
    \/ \E s \in Slots : ZipEntry(s)
    \/ \E s \in Slots : ClientClose(s)
    \/ \E s \in Slots : ZipBlocked(s)
    \/ \E s \in Slots : ZipError(s)
    \/ Deliver

ServerSteps(s) ==
    \/ QueryVuln(s)
    \/ QueryFixes(s)
    \/ QueryAnomalies(s)
    \/ PdfFinish(s)
    \/ ZipEntry(s)
    \/ ZipBlocked(s)

SpecZip ==
    /\ Init
    /\ [][NextZip]_vars
    /\ \A s \in Slots : WF_vars(ServerSteps(s))
    /\ WF_vars(Deliver)

-----------------------------------------------------------------------------
(* Claims about the routes                                                 *)

\* C8: on each of the five report routes validation comes first: a request
\* with a rejected identifier is answered 400 and has issued no query, built
\* no artifact path and touched no file; no request with a rejected
\* identifier gets past validation.
C8_ValidationFirst ==
    /\ resp # NoResp /\ ~ClaimedAccept(resp.raw) =>
          resp.status = 400 /\ resp.effects = {}
    /\ \A raw \in RawIds, ext \in Exts :
          ~ClaimedAccept(raw) =>
              download(raw, ext).status = 400 /\ download(raw, ext).effects = {}
    /\ \A s \in Slots :
          inflight[s].pc # "idle" => ClaimedAccept(inflight[s].pipelineId)

\* C8 witness: artifacts exist, a zip request with a rejected identifier has
\* just been answered 400 and a download with that identifier is answered 400.
C8_Witness ==
    /\ resp # NoResp
    /\ resp.route = "zip"
    /\ resp.status = 400
    /\ ~ClaimedAccept(resp.raw)
    /\ download(resp.raw, sHtml).status = 400
    /\ \E p \in Paths : files[p] # NoFile

\* C9: a download of a format for a pipeline answers 404 as long as no
\* generation for the pipeline has written that artifact, and once a generate
\* request for the pipeline has answered 200 every download of each of the
\* three formats answers 200.
C9_DownloadStatus ==
    \A raw \in RawIds, ext \in Exts :
        ClaimedAccept(raw) =>
            /\ <<ClaimedTrim(raw), ext>> \notin hist.written =>
                   download(raw, ext).status = 404
            /\ ClaimedTrim(raw) \in hist.generated =>
                   download(raw, ext).status = 200

Reflects(p, g) ==
    LET html == files[filePathFor(p, sHtml)]
        pdf == files[filePathFor(p, sPdf)]
        sarif == files[filePathFor(p, sSarif)]
        shown == [i \in DOMAIN g.rows |->
                     [id |-> g.rows[i].id, findings |-> parseFindings(g.rows[i])]]
    IN  /\ html.kind = "html" /\ html.mode = g.mode /\ html.vulns = shown
        /\ pdf.kind = "pdf" /\ pdf.writers = {} /\ ~pdf.torn
        /\ pdf.vulns = SubSeq(shown, 1, Min(PdfRowCap, Len(shown)))
        /\ sarif.kind = "sarif" /\ sarif.doc = toSarif(p, g.rows)

Shown(rows) ==
    [i \in DOMAIN rows |-> [id |-> rows[i].id, findings |-> parseFindings(rows[i])]]

\* C12: within one generateReport call the score, the HTML view model, the
\* PDF and the SARIF document are built from the one row set the call fetched
\* with its mode: the rows of a call are set by its vuln_reports query only,
\* and every artifact and the score it produces show these rows.
C12_OneRowSet ==
    [][\A s \in Slots :
          LET r == inflight[s]
              after == inflight'[s]
              p == r.pipelineId
          IN  /\ after.pc # "idle" /\ after.vulnRows # r.vulnRows =>
                    /\ r.pc = "q1"
                    /\ after.vulnRows = vulnQuery(db.vuln, p, limitFor(r.mode))
              /\ r.pc = "q3" /\ after.pc = "pdf" =>
                    LET html == files'[filePathFor(p, sHtml)]
                        pdf == files'[filePathFor(p, sPdf)]
                        scoreObj == computeScore(r.vulnRows, after.anomalyCount)
                    IN  /\ html.vulns = Shown(r.vulnRows)
                        /\ html.mode = r.mode
                        /\ html.score = scoreObj.score
                        /\ pdf.vulns = SubSeq(Shown(r.vulnRows), 1,
                                              Min(PdfRowCap, Len(r.vulnRows)))
                        /\ pdf.score = scoreObj.score
              /\ r.pc = "pdf" /\ after.pc # "pdf" /\ resp'.status # 500 =>
                    /\ files'[filePathFor(p, sSarif)].doc = toSarif(p, r.vulnRows)
                    /\ resp'.status = 200 =>
                          resp'.body.score =
                              computeScore(r.vulnRows, r.anomalyCount).score
    ]_vars

\* C12 witness: a call in mode all fetched one row, a second report of the
\* pipeline arrived while it ran, and its html and sarif show the one row.
C12_Witness ==
    \E s \in Slots :
        LET r == inflight[s] IN
        /\ r.pc = "zip"
        /\ r.mode = sAll
        /\ Len(r.vulnRows) = 1
        /\ Len(vulnQuery(db.vuln, r.pipelineId, limitFor(r.mode))) = 2
        /\ files[filePathFor(r.pipelineId, sHtml)].vulns = Shown(r.vulnRows)
        /\ files[filePathFor(r.pipelineId, sSarif)].doc = toSarif(r.pipelineId, r.vulnRows)

\* the path under which the artifact of a pipeline and a format is stored
ClaimedPath(p, ext) == sReportsDir \o <<"/">> \o p \o <<".">> \o ext

\* C13: requests for different pipelines are independent: a step of a
\* generate or zip request for pipeline p changes no file but the three
\* artifacts of p, and leaves the download answers of every other pipeline
\* as they were.
C13_PipelinesIndependent ==
    [][\A s \in Slots :
          inflight[s].pc # "idle" /\ inflight'[s] # inflight[s] =>
              LET p == inflight[s].pipelineId IN
              /\ \A path \in DOMAIN files :
                    files'[path] # files[path] =>
                        path \in {ClaimedPath(p, e) : e \in Exts}
              /\ \A q \in DbPipelines \ {p}, e \in Exts :
                    downloadFrom(files', q, e) = downloadFrom(files, q, e)
    ]_vars

\* C13 witness: generations for two pipelines overlap, both have written
\* their html and pdf, and each pipeline's html is its own.
C13_Witness ==
    \E s, t \in Slots :
        /\ inflight[s].pc = "pdf" /\ inflight[s].pipelineId = sPipe
        /\ inflight[t].pc = "pdf" /\ inflight[t].pipelineId = sDotPipe
        /\ files[ClaimedPath(sPipe, sHtml)].pipeline = sPipe
        /\ files[ClaimedPath(sDotPipe, sHtml)].pipeline = sDotPipe
        /\ Len(files[ClaimedPath(sPipe, sHtml)].vulns) = 1
        /\ Len(files[ClaimedPath(sDotPipe, sHtml)].vulns) = 1

\* C14: overlapping generations of one pipeline are not excluded from each
\* other: two requests for the same pipeline can both have their PDF stream
\* open, and then both write the one file at once.
C14_NoMutualExclusion ==
    \A s, t \in Slots :
        /\ s # t
        /\ inflight[s].pc = "pdf" /\ inflight[t].pc = "pdf"
        /\ inflight[s].pipelineId = inflight[t].pipelineId
        => LET pdf == files[filePathFor(inflight[s].pipelineId, sPdf)] IN
           pdf.writers = {s, t} /\ pdf.torn

\* C14 witness: no generation is running for the pipeline and its stored
\* artifacts do not come from one generation: the html is in another mode
\* than the sarif written last and shows another number of reports, and both
\* are served by the downloads.
C14_Witness ==
    \E p \in DbPipelines :
        LET html == files[filePathFor(p, sHtml)]
            sarif == files[filePathFor(p, sSarif)]
        IN  /\ ~Generating(p)
            /\ \A s \in Slots : inflight[s].pc = "idle"
            /\ html.kind = "html" /\ sarif.kind = "sarif"
            /\ html.mode # hist.last[p].mode
            /\ sarif.doc = toSarif(p, hist.last[p].rows)
            /\ Len(html.vulns) # Len(hist.last[p].rows)
            /\ download(p, sHtml).body = html
            /\ download(p, sSarif).body = sarif

\* the archive entry holds what the generation of request r wrote for ext
OwnEntry(r, entry, ext) ==
    /\ entry.name = r.pipelineId \o <<".">> \o ext
    /\ ext = sHtml => /\ entry.content.kind = "html"
                      /\ entry.content.mode = r.mode
                      /\ entry.content.vulns = Shown(r.vulnRows)
    /\ ext = sPdf => /\ entry.content.kind = "pdf"
                     /\ entry.content.vulns =
                            SubSeq(Shown(r.vulnRows), 1, Min(PdfRowCap, Len(r.vulnRows)))
                     /\ entry.content.writers = {}
                     /\ ~entry.content.torn
    /\ ext = sSarif => /\ entry.content.kind = "sarif"
                       /\ entry.content.doc = toSarif(r.pipelineId, r.vulnRows)

\* C15: a zip request has finished its own generation, in its mode, before
\* the archive reads its first file; the archive holds the three entries
\* p.html, p.pdf and p.sarif in this order, and every entry holds what the
\* request's own generation wrote, also when other requests for p overlap.
C15_ZipOwnArtifacts ==
    [][\A s \in Slots :
          LET r == inflight[s]
              after == inflight'[s]
              entries == IF after.pc = "zip" THEN after.entries
                         ELSE resp'.body.entries
          IN  r.pc = "zip" /\ (after.pc # "zip" \/ after.entries # r.entries) =>
                  /\ Len(entries) = Len(r.entries) + 1
                  /\ s \notin files[filePathFor(r.pipelineId, sPdf)].writers
                  /\ \A e \in Exts : existsSync(files, filePathFor(r.pipelineId, e))
                  /\ OwnEntry(r, entries[Len(entries)],
                              <<sHtml, sPdf, sSarif>>[Len(entries)])
                  /\ after.pc # "zip" => Len(entries) = 3
    ]_vars

\* C16: when the connection of a zip request closes, during the generation
\* or while the archive streams, the archive is eventually aborted or
\* finished: the request does not stay with the server for ever.
C16_ZipReleased ==
    \A s \in Slots :
        (inflight[s].kind = "zip" /\ inflight[s].conn = "closed")
            ~> (inflight[s].pc = "idle")

-----------------------------------------------------------------------------
(* The dashboard API: GET /dashboard                                       *)

\* A JavaScript number as the limit arithmetic needs it: NaN, or its floor
\* and whether a fraction is left over.
NaN == [nan |-> TRUE, floor |-> 0, frac |-> FALSE]
Whole(n) == [nan |-> FALSE, floor |-> n, frac |-> FALSE]

\* Math.max(x, n) and Math.min(x, n) for an integer n: NaN stays NaN
MathMaxInt(x, n) ==
    IF x.nan THEN NaN ELSE IF x.floor < n THEN Whole(n) ELSE x

MathMinInt(x, n) ==
    IF x.nan THEN NaN
    ELSE IF x.floor > n \/ (x.floor = n /\ x.frac) THEN Whole(n) ELSE x

DigitValue(c) == (CHOOSE i \in DOMAIN DigitChars : DigitChars[i] = c) - 1

RECURSIVE DigitsValue(_)
DigitsValue(ds) ==
    IF ds = <<>> THEN 0
    ELSE 10 * DigitsValue(SubSeq(ds, 1, Len(ds) - 1)) + DigitValue(ds[Len(ds)])

IsDigits(s) == \A i \in DOMAIN s : s[i] \in Range(DigitChars)

\* Number(str) for decimal literals: surrounding whitespace is dropped, the
\* empty string is 0, an optional sign, digits with an optional fraction;
\* anything else is NaN (exponents, hex and Infinity are not among the inputs)
NumberOf(str) ==
    LET t == Trim(str)
        signed == t # <<>> /\ t[1] \in {"-", "+"}
        neg == t # <<>> /\ t[1] = "-"
        body == IF signed THEN Tail(t) ELSE t
        dots == {i \in DOMAIN body : body[i] = "."}
        dot == IF dots = {} THEN Len(body) + 1 ELSE CHOOSE i \in dots : TRUE
        ip == SubSeq(body, 1, dot - 1)
        fp == SubSeq(body, dot + 1, Len(body))
        whole == DigitsValue(ip)
        frac == \E i \in DOMAIN fp : fp[i] # "0"
    IN  IF t = <<>> THEN Whole(0)
        ELSE IF \/ Cardinality(dots) > 1
                \/ ~IsDigits(ip) \/ ~IsDigits(fp)
                \/ (ip = <<>> /\ fp = <<>>)
        THEN NaN
        ELSE IF ~neg THEN [nan |-> FALSE, floor |-> whole, frac |-> frac]
        ELSE [nan |-> FALSE, floor |-> IF frac THEN 0 - whole - 1 ELSE 0 - whole,
              frac |-> frac]

LimitDefault == 20
LimitMin == 1
LimitMax == 200

\* Math.min(Math.max(Number(req.query.limit || 20), 1), 200)
limitOf(req) ==
    LET n == IF Truthy(req.limit) THEN NumberOf(StringOf(req.limit))
             ELSE Whole(LimitDefault)
    IN  MathMinInt(MathMaxInt(n, LimitMin), LimitMax)

Severities == {sCritical, sHigh, sMedium, sLow}

normSeverity(s) ==
    LET x == Trim(ToLowerCase(StringOf(OrElse(s, JStr(<<>>))))) IN
    IF x \in Severities THEN JStr(x) ELSE Undef

\* req.query.pipeline && req.query.pipeline !== "all" ? String(...) : null
pipelineOf(req) ==
    IF Truthy(req.pipeline) /\ req.pipeline # JStr(sAll)
    THEN JStr(StringOf(req.pipeline)) ELSE Undef

\* req.query.severity && req.query.severity !== "all" ? normSeverity(...) : null
severityOf(req) ==
    IF Truthy(req.severity) /\ req.severity # JStr(sAll)
    THEN normSeverity(req.severity) ELSE Undef

\* String(req.query.q || "").trim()
textOf(req) == Trim(StringOf(OrElse(req.q, JStr(<<>>))))

\* ---- the tables GET /dashboard reads

\* a pipeline_runs row; severity_score may be NULL
NullScore == [null |-> TRUE, n |-> 0]
ScoreOf(n) == [null |-> FALSE, n |-> n]
Run(pipeline, ts, score) ==
    [pipeline_id |-> pipeline, ts |-> ts, run_id |-> ts, severity_score |-> score]

\* ORDER BY pipeline_id over the pipeline names in use
PipelineOrder == <<sPipe, sOther>>

SortedNames(names) ==
    LET Named(x) == x \in names IN SelectSeq(PipelineOrder, Named)

\* ORDER BY ts DESC over runs with distinct timestamps
RECURSIVE OrderByTsDesc(_)
OrderByTsDesc(rows) ==
    IF rows = {} THEN <<>>
    ELSE LET newest == CHOOSE r \in rows : \A q \in rows : q.ts <= r.ts
         IN  <<newest>> \o OrderByTsDesc(rows \ {newest})

Reverse(seq) == [i \in DOMAIN seq |-> seq[Len(seq) + 1 - i]]

\* SELECT DISTINCT pipeline_id FROM pipeline_runs, else the pipelines of
\* vuln_reports
pipelinesQuery(d) ==
    LET fromRuns == {r.pipeline_id : r \in Range(d.runs)} IN
    IF fromRuns # {} THEN SortedNames(fromRuns)
    ELSE SortedNames({r.pipeline : r \in Range(d.vuln)})

\* Number(r.severity_score || 0) after COALESCE(severity_score, 0), and
\* Math.max(0, Math.min(100, Math.round(100 - risk)))
riskOf(r) == IF r.severity_score.null THEN 0 ELSE r.severity_score.n
runScore(r) == Max(0, Min(100, MathRound(100 - riskOf(r))))

\* pipelineScores taken from the first run of each pipeline
pipelineScoresQueryFirst(d) ==
    LET names == SortedNames({r.pipeline_id : r \in Range(d.runs)})
        first(name) == CHOOSE r \in Range(d.runs) :
                          /\ r.pipeline_id = name
                          /\ \A q \in Range(d.runs) :
                                q.pipeline_id = name => r.ts <= q.ts
    IN  [i \in DOMAIN names |->
            [pipeline_id |-> names[i], score |-> runScore(first(names[i])),
             ts |-> first(names[i]).ts, risk |-> riskOf(first(names[i]))]]

\* SELECT DISTINCT ON (pipeline_id) ... ORDER BY pipeline_id, ts DESC
pipelineScoresQuery(d) ==
    LET names == SortedNames({r.pipeline_id : r \in Range(d.runs)})
        latest(name) == CHOOSE r \in Range(d.runs) :
                           /\ r.pipeline_id = name
                           /\ \A q \in Range(d.runs) :
                                 q.pipeline_id = name => q.ts <= r.ts
    IN  [i \in DOMAIN names |->
            [pipeline_id |-> names[i], score |-> runScore(latest(names[i])),
             ts |-> latest(names[i]).ts, risk |-> riskOf(latest(names[i]))]]

TimelineCap == 25

\* the last 25 runs (of the selected pipeline), oldest first
timelineQuery(d, pipeline) ==
    LET hit == OrderByTsDesc({r \in Range(d.runs) :
                                 pipeline = Undef \/ r.pipeline_id = pipeline.v})
        rows == SubSeq(hit, 1, Min(TimelineCap, Len(hit)))
    IN  Reverse([i \in DOMAIN rows |->
                    [time |-> rows[i].ts, pipeline_id |-> rows[i].pipeline_id,
                     run_id |-> rows[i].run_id, severity_score |-> riskOf(rows[i]),
                     score |-> runScore(rows[i])]])

\* t contains p
Contains(t, p) ==
    \E i \in 0..(Len(t) - Len(p)) : SubSeq(t, i + 1, i + Len(p)) = p

\* the text the search looks at: the pipeline and the values stored in the
\* findings (the searches used here have none of the ILIKE wildcards % and _
\* and match no key or punctuation of the JSON text)
searchTexts(row) ==
    {row.pipeline} \cup
    UNION { {OrElse(f.rule_id, JStr(<<>>)).v, OrElse(f.title, JStr(<<>>)).v,
             OrElse(f.description, JStr(<<>>)).v, OrElse(f.severity, JStr(<<>>)).v}
            : f \in Range(row.findings.items) }

\* ... ILIKE '%q%'
ilike(row, q) ==
    \E t \in searchTexts(row) : Contains(ToLowerCase(t), ToLowerCase(q))

\* SELECT ... FROM vuln_reports [WHERE pipeline = $1 AND (... ILIKE $2)]
\* ORDER BY created_at DESC LIMIT $n, for a limit the store can read
dashVulnQuery(table, pipeline, q, limit) ==
    LET hit == OrderByCreatedDesc(
                   {r \in Range(table) :
                       /\ pipeline = Undef \/ r.pipeline = pipeline.v
                       /\ q = <<>> \/ ilike(r, q)})
    IN  SubSeq(hit, 1, Min(limit, Len(hit)))

\* the LIMIT parameter is sent as text and read as a bigint: NaN and
\* fractions make the query fail
limitRejected(limit) == limit.nan \/ limit.frac

DashFixCap == 20

\* SELECT ... FROM fix_reports [WHERE pipeline_id = $1] ... LIMIT 20: the ids
\* where the relation does not exist the query rejects with 42P01, which
\* the handler catches: fixes = []
dashFixQuery(d, pipeline) ==
    LET hit == OrderByCreatedDesc({r \in Range(d.fixes) :
                                      pipeline = Undef \/ r.pipeline = pipeline.v})
    IN  IF d.fixRelation THEN SubSeq(hit, 1, Min(DashFixCap, Len(hit)))
        ELSE <<>>

\* the severity filter left out
filterAlertsNone(alertsAll, severity) == alertsAll

\* severity ? alertsAll.filter((a) => a.severity === severity) : alertsAll
filterAlerts(alertsAll, severity) ==
    LET Selected(a) == a.severity = severity IN
    IF Truthy(severity) THEN SelectSeq(alertsAll, Selected) ELSE alertsAll

\* the handler of GET /dashboard over the tables d
dashboard(req, d) ==
    LET pipeline == pipelineOf(req)
        severity == severityOf(req)
        q == textOf(req)
        limit == limitOf(req)
        vulnRows == dashVulnQuery(d.vuln, pipeline, q, limit.floor)
        alertsAll == vulnRowsToAlerts(vulnRows)
        alerts == filterAlerts(alertsAll, severity)
        anomalyCount == IF Truthy(pipeline)
                        THEN anomalyQuery(d.anomalies, pipeline.v) ELSE 0
    IN  IF limitRejected(limit) \/ vulnRowsToAlertsThrows(vulnRows)
        THEN [status |-> 500, queryLimit |-> limit]
        ELSE [status |-> 200, queryLimit |-> limit,
              meta |-> [pipeline |-> pipeline, severity |-> severity,
                        q |-> q, limit |-> limit],
              score |-> computeScoreFromAlerts(alerts, anomalyCount),
              pipelines |-> pipelinesQuery(d),
              pipelineScores |-> pipelineScoresQuery(d),
              timeline |-> timelineQuery(d, pipeline),
              vulns |-> [i \in DOMAIN vulnRows |->
                            [id |-> vulnRows[i].id,
                             pipeline |-> vulnRows[i].pipeline,
                             created_at |-> vulnRows[i].created_at,
                             findings |-> dashFindings(vulnRows[i])]],
              fixes |-> dashFixQuery(d, pipeline),
              anomalies |-> IF Truthy(pipeline)
                            THEN <<[pipeline_id |-> pipeline.v,
                                    count |-> anomalyCount]>>
                            ELSE <<>>,
              alerts |-> alerts]

\* ---- GET /dashboard under all requests over small tables

MaxDashReports == 2

\* req.query.limit as clients send it
LimitInputs ==
    { Undef, JStr(<<>>), JStr(<<"0">>), JStr(<<"1">>), JStr(<<"2","0">>),
      JStr(<<"-","5">>), JStr(<<"2",".","5">>), JStr(<<".","5">>),
      JStr(<<"2","0","0">>), JStr(<<"2","0","0",".","5">>),
      JStr(<<"2","0","1">>), JStr(<<" ","7"," ">>), JStr(<<"3",".","0">>),
      JStr(<<"a","b","c">>), JStr(<<"1","0","x">>), JStr(<<"-">>) }

sBogus == <<"b","o","g","u","s">>

\* req.query.severity as clients send it
SeverityInputs ==
    { Undef, JStr(sAll), JStr(sCritical), JStr(<<"H","i","g","h">>),
      JStr(<<" ","l","o","w"," ">>), JStr(sBogus) }

PipelineInputs == {Undef, JStr(sAll), JStr(sPipe)}

TextInputs == {Undef, JStr(<<"P","1">>), JStr(<<"z","z">>)}

\* findings as the detector stores them with a report
DashFindingLists ==
    { << Finding(JStr(<<"R","1">>), JStr(<<"A">>), Undef, JStr(sCritical)),
         Finding(JStr(<<"R","2">>), JStr(<<"B">>), Undef, JStr(<<"H","I","G","H">>)),
         Finding(Undef, JStr(<<"C">>), Undef, Undef) >>,
      << Finding(JStr(<<"R","3">>), JStr(<<"D">>), Undef, JStr(sInfo)),
         Finding(JStr(<<"R","1">>), JStr(<<"E">>), Undef, JStr(sLow)) >> }

DashVulnTables ==
    UNION { { [i \in 1..k |-> Row(i, ps[i], i, "array", fl[i])] :
                ps \in [1..k -> {sPipe, sOther}],
                fl \in [1..k -> DashFindingLists] }
            : k \in 0..MaxDashReports }

DashRunTables ==
    { <<>>,
      << Run(sOther, 1, NullScore), Run(sPipe, 2, ScoreOf(130)),
         Run(sPipe, 3, ScoreOf(35)), Run(sOther, 4, ScoreOf(130)) >> }

\* the tables; at a cold start no run is recorded and the fix_reports
\* relation does not exist yet
DashStores ==
    { [vuln |-> v, runs |-> r,
       anomalies |-> [p \in {sPipe} |-> Cardinality({sPipe, sOther})],
       fixes |-> << [id |-> 1, pipeline |-> sPipe, created_at |-> 1] >>,
       fixRelation |-> r # <<>>] :
        v \in DashVulnTables, r \in DashRunTables }

DashInputs ==
    { [req |-> [pipeline |-> pl, severity |-> Undef, q |-> Undef, limit |-> l],
       store |-> d] :
        pl \in PipelineInputs, l \in LimitInputs,
        d \in {x \in DashStores : Len(x.vuln) = MaxDashReports} }
    \cup
    { [req |-> [pipeline |-> pl, severity |-> sv, q |-> q, limit |-> l],
       store |-> d] :
        pl \in PipelineInputs, sv \in SeverityInputs, q \in TextInputs,
        l \in {Undef, JStr(<<"1">>)}, d \in DashStores }

InitDash ==
    /\ input \in DashInputs
    /\ output = NoOutput
    /\ IdleServer

\* the request is served, and so is the request that differs from it in the
\* severity filter only
Dashboard ==
    /\ output.by = "none"
    /\ \E sv \in SeverityInputs :
          output' = [by |-> "dashboard",
                     res |-> dashboard(input.req, input.store),
                     alt |-> dashboard([input.req EXCEPT !.severity = sv],
                                       input.store)]
    /\ UNCHANGED <<input, db, files, inflight, resp, hist>>

NextDash == Dashboard

SpecDash == InitDash /\ [][NextDash]_vars

\* ---- claims about GET /dashboard

\* x is a number between LimitMin and LimitMax
InLimitRange(x) ==
    /\ ~x.nan
    /\ x.floor >= LimitMin
    /\ x.floor < LimitMax \/ (x.floor = LimitMax /\ ~x.frac)

\* C17: whatever the limit parameter of a dashboard request is, the row limit
\* handed to the vulnerability query is a number in [1,200], the response
\* echoes it in meta.limit, and it is 20 when the parameter is absent.
C17_LimitClamped ==
    output.by = "dashboard" =>
        LET r == output.res IN
        /\ InLimitRange(r.queryLimit)
        /\ r.status = 200 /\ r.meta.limit = r.queryLimit
        /\ input.req.limit = Undef => r.queryLimit = Whole(LimitDefault)

\* the findings of the returned reports whose severity, in lower case with
\* "low" for a missing one, passes the filter
PassingFindings(r) ==
    LET passes(f) ==
            \/ ~Truthy(r.meta.severity)
            \/ ToLowerCase(StringOf(OrElse(f.severity, JStr(sLow))))
                   = r.meta.severity.v
    IN  SumSeq([i \in DOMAIN r.vulns |->
                  Cardinality({j \in DOMAIN r.vulns[i].findings :
                                  passes(r.vulns[i].findings[j])})])

\* the score of response r is the formula over the alerts r returns and the
\* anomaly count r returns
ScoredFromReturned(r) ==
    LET count == IF r.anomalies = <<>> THEN 0 ELSE r.anomalies[1].count
        weights == [i \in DOMAIN r.alerts |->
                      dashSeverityWeight(r.alerts[i].severity)]
    IN  /\ r.score.details.totalFindings = Len(r.alerts)
        /\ r.score.details.totalRisk = SumSeq(weights)
        /\ r.score.details.anomalyCount = count
        /\ r.score.value
              = Max(0, 100 - Min(VulnCap, 2 * SumSeq(weights))
                           - Min(AnomalyCap, 2 * count))

\* response r went through the pipeline, text and severity filters of req
Filtered(r) ==
    /\ Truthy(r.meta.severity) =>
          \A i \in DOMAIN r.alerts : r.alerts[i].severity = r.meta.severity
    /\ Truthy(r.meta.pipeline) =>
          /\ \A i \in DOMAIN r.alerts : r.alerts[i].pipeline = r.meta.pipeline.v
          /\ \A i \in DOMAIN r.vulns : r.vulns[i].pipeline = r.meta.pipeline.v
    /\ Len(r.alerts) = PassingFindings(r)

\* C18: the score of a dashboard response is the score formula applied to
\* the alerts of that response and the anomaly count: totalFindings is the
\* number of returned alerts, totalRisk the sum of their weights, and the
\* returned alerts are the findings left after the pipeline, text and
\* severity filters, so with a severity filter s each of them has severity s.
C18_ScoreOfReturnedAlerts ==
    (output.by = "dashboard" /\ output.res.status = 200) =>
        /\ ScoredFromReturned(output.res)
        /\ Filtered(output.res)

C18_Witness ==
    /\ output.by = "dashboard"
    /\ output.res.status = 200
    /\ Truthy(output.res.meta.severity)
    /\ Truthy(output.res.meta.pipeline)
    /\ output.res.meta.q # <<>>
    /\ Len(output.res.alerts) > 0
    /\ Len(output.res.alerts)
          < SumSeq([i \in DOMAIN output.res.vulns |->
                      Len(output.res.vulns[i].findings)])
    /\ Len(output.res.vulns) < Len(input.store.vuln)

\* one entry per pipeline of pipeline_runs, taken from its latest run, with
\* score = clamp(0, 100, round(100 - risk))
LatestScores(scores, runs) ==
    /\ \A r \in Range(runs) :
          Cardinality({i \in DOMAIN scores :
                          scores[i].pipeline_id = r.pipeline_id}) = 1
    /\ \A i \in DOMAIN scores :
          \E r \in Range(runs) :
             /\ r.pipeline_id = scores[i].pipeline_id
             /\ r.ts = scores[i].ts
             /\ \A o \in Range(runs) :
                   o.pipeline_id = r.pipeline_id => o.ts <= r.ts
             /\ scores[i].risk = (IF r.severity_score.null THEN 0
                                  ELSE r.severity_score.n)
             /\ scores[i].score
                   = (IF scores[i].risk >= 100 THEN 0
                      ELSE IF scores[i].risk <= 0 THEN 100
                      ELSE 100 - scores[i].risk)

\* C19: two dashboard requests over the same tables that differ in the
\* severity filter only get the same pipelineScores, one entry per pipeline
\* from its latest run with score = clamp(0, 100, round(100 - risk)), while
\* the alerts and the score of each follow its own filter.
C19_PipelineScoresUnfiltered ==
    (/\ output.by = "dashboard"
     /\ output.res.status = 200 /\ output.alt.status = 200) =>
        /\ output.res.pipelineScores = output.alt.pipelineScores
        /\ LatestScores(output.res.pipelineScores, input.store.runs)
        /\ \A r \in {output.res, output.alt} :
              /\ ScoredFromReturned(r)
              /\ Truthy(r.meta.severity) =>
                    \A i \in DOMAIN r.alerts :
                       r.alerts[i].severity = r.meta.severity

C19_Witness ==
    /\ output.by = "dashboard"
    /\ output.res.status = 200 /\ output.alt.status = 200
    /\ output.res.meta.severity = JStr(sCritical)
    /\ output.alt.meta.severity = Undef
    /\ Len(output.res.alerts) > 0
    /\ Len(output.res.alerts) < Len(output.alt.alerts)
    /\ output.res.score.value # output.alt.score.value
    /\ \E i, j \in DOMAIN output.res.pipelineScores :
          /\ output.res.pipelineScores[i].score = 0
          /\ output.res.pipelineScores[j].score \in 1..99

\* the filter value names no severity and is not "all"
MalformedSeverity(v) ==
    /\ Truthy(v)
    /\ Trim(ToLowerCase(StringOf(v))) \notin Severities \cup {sAll}

\* C20: a dashboard request whose severity filter is none of all, critical,
\* high, medium, low is answered with a 4xx input error and no dashboard
\* data; it is not served as if it had no filter.
C20_MalformedFilterRejected ==
    (output.by = "dashboard" /\ MalformedSeverity(input.req.severity)) =>
        output.res.status \in 400..499

-----------------------------------------------------------------------------
(* Report generation over a store that can fail: one request at a time,    *)
(* over tables as the detectors left them; a query can reject, the         *)
(* fix_reports relation can be missing, the HTML file can be refused and   *)
(* the PDF stream can break.  `input` holds the artifacts as the client    *)
(* saw them last before its request.                                       *)

MaxGenReports == 2

\* vuln_reports with n rows; every fifth report is of the other pipeline
GenTable(n) ==
    [i \in 1..n |-> Row(i, IF i % 5 = 0 THEN sDotPipe ELSE sPipe, i, "array",
                        StoredFindings(i))]

GenStores ==
    { [vuln |-> GenTable(n), fixes |-> f, anomalies |-> StoredAnomalies,
       fixRelation |-> b] :
        n \in (0..MaxGenReports) \cup {RowCap + RowCap \div 2},
        f \in {0, StoredFixes, FixCap + StoredFixes},
        b \in BOOLEAN }

InitGen ==
    /\ db \in GenStores
    /\ files = [p \in Paths |-> NoFile]
    /\ input = files
    /\ output = NoOutput
    /\ inflight = [s \in Slots |-> IdleReq]
    /\ resp = NoResp
    /\ hist = InitHist

\* the client looks at the artifacts while no request runs
Observe ==
    /\ Quiet
    /\ \A s \in Slots : inflight[s].pc = "idle"
    /\ input # files
    /\ input' = files
    /\ UNCHANGED <<output, db, files, inflight, resp, hist>>

NextGen ==
    \/ Observe
    \/ \E q \in RawModes : input = files /\ Receive(1, "generate", sPipe, q)
    \/ QueryVuln(1)
    \/ QueryFixes(1)
    \/ QueryAnomalies(1)
    \/ QueryFail(1)
    \/ HtmlWriteFail(1)
    \/ PdfFail(1)
    \/ PdfFinish(1)
    \/ Deliver

SpecGen == InitGen /\ [][NextGen]_vars

\* ---- claims about generation over a failing store

\* C23: where the fix-suggestions relation does not exist, the lookup of
\* report generation yields an empty fix list and the generation goes on to
\* write its artifacts; another datastore error in that lookup is surfaced.
C23_MissingFixRelationTolerated ==
    [][ /\ (~db.fixRelation /\ QueryFixes(1)) =>
              /\ inflight'[1].pc = "q3"
              /\ inflight'[1].fixRows = <<>>
              /\ resp' = NoResp
        /\ (inflight[1].pc = "q2" /\ QueryFail(1)) => resp'.status = 500
      ]_vars

\* C24: a generation request that fails at one of its steps (a query, the
\* HTML write, the PDF rendering, the SARIF write) is answered with a 5xx
\* error, and the three artifacts of the pipeline are what they were before
\* the request.
C24_FailureLeavesArtifacts ==
    (resp.route = "generate" /\ resp.status \notin {200, 400}) =>
        /\ resp.status \in 500..599
        /\ \A e \in Exts :
              files[filePathFor(resp.raw, e)] = input[filePathFor(resp.raw, e)]

\* C25: with mode "latest" generateReport feeds the single most recent
\* report of the pipeline (none when it has none), with mode "all" its most
\* recent reports up to the cap of 50, newest first; the fixes and the
\* anomaly count used are the same whatever the mode.
C25_ModeSelectsRows ==
    \A s \in Slots :
        inflight[s].pc \in {"q2", "q3", "pdf"} =>
            LET r == inflight[s]
                rows == r.vulnRows
                mine == {x \in Range(db.vuln) : x.pipeline = r.pipelineId}
                want == IF r.mode = sLatest THEN 1 ELSE RowCap
            IN  /\ r.mode \in {sLatest, sAll}
                /\ Len(rows) = Min(want, Cardinality(mine))
                /\ \A i \in DOMAIN rows : rows[i] \in mine
                /\ \A i, j \in DOMAIN rows :
                      i < j => rows[i].created_at > rows[j].created_at
                /\ \A m \in mine \ Range(rows) : \A i \in DOMAIN rows :
                      m.created_at < rows[i].created_at
                /\ r.pc \in {"q3", "pdf"} =>
                      r.fixRows = [i \in 1..Min(db.fixes, FixCap) |->
                                      db.fixes - i + 1]
                /\ r.pc = "pdf" => r.anomalyCount = db.anomalies[r.pipelineId]

C25_Witness ==
    \E s \in Slots :
        /\ inflight[s].pc = "pdf"
        /\ inflight[s].mode = sAll
        /\ Len(inflight[s].vulnRows) = RowCap
        /\ Cardinality({x \in Range(db.vuln) :
                           x.pipeline = inflight[s].pipelineId}) > RowCap
        /\ Len(inflight[s].fixRows) = FixCap
        /\ db.fixes > FixCap
        /\ hist.last[inflight[s].pipelineId].mode = sLatest

-----------------------------------------------------------------------------
(* Harness of the finding normalizers: the consumers of vuln_reports rows  *)
(* (computeScore, toSarif, renderPdf, vulnRowsToAlerts) applied to batches *)
(* of rows whose findings are stored in every shape the column allows.     *)

MaxBatchRows == 2

\* the findings column of a row, in the shapes JSONB can hold
NormFindingsValues ==
    { [k |-> "array",
       items |-> <<Finding(JStr(<<"R","1">>), JStr(<<"A">>), Undef, JStr(sHigh))>>],
      [k |-> "strArray",
       items |-> <<Finding(JStr(<<"R","2">>), JStr(<<"B">>), Undef, JStr(sMedium))>>],
      [k |-> "strString", items |-> <<"a", "b">>] }
    \cup
    { [k |-> k, items |-> <<>>] :
        k \in {"null", "strBad", "object", "number", "strObject", "strNull"} }

\* the evidence property of a stored finding
EvidenceValues ==
    { Undef, JNull, JStr(<<>>), JStr(<<"e">>), JNum(<<"4","2">>), JNum(<<"0">>),
      JBool(TRUE), JBool(FALSE), JArr(<<>>),
      JArr(<<JStr(<<"a">>), JNum(<<"1">>), JNull,
             JObj(<< << <<"k">>, <<"v">> >> >>)>>),
      JObj(<<>>), JObj(<< << <<"k">>, <<"v">> >> >>) }

EvidenceFinding(e) ==
    [Finding(JStr(<<"R","1">>), JStr(<<"T">>), Undef, JStr(sHigh))
        EXCEPT !.evidence = e]

\* batches as the vuln_reports query returns them, newest first
NormBatches ==
    { [i \in DOMAIN fv |-> Row(i, sPipe, Len(fv) - i, fv[i].k, fv[i].items)] :
        fv \in SeqsUpTo(NormFindingsValues, MaxBatchRows) }
    \cup
    { << Row(1, sPipe, 1, "array", <<EvidenceFinding(e1), EvidenceFinding(e2)>>) >> :
        e1 \in EvidenceValues, e2 \in EvidenceValues }
    \cup
    { << Row(1, sPipe, 1, "array", <<SevFinding(sv)>>) >> :
        sv \in {x \in SevValues : x.t # "num"} }

InitNorm ==
    /\ input \in NormBatches
    /\ output = NoOutput
    /\ IdleServer

NoResult == [kind |-> "none"]

NormScore ==
    /\ output.by = "none"
    /\ output' = [by |-> "computeScore",
                  threw |-> computeScoreThrows(input),
                  res |-> IF computeScoreThrows(input) THEN NoResult
                          ELSE computeScore(input, 0)]
    /\ UNCHANGED <<input, db, files, inflight, resp, hist>>

NormSarif ==
    /\ output.by = "none"
    /\ output' = [by |-> "toSarif",
                  threw |-> toSarifThrows(input),
                  res |-> IF toSarifThrows(input) THEN NoResult
                          ELSE toSarif(sPipe, input)]
    /\ UNCHANGED <<input, db, files, inflight, resp, hist>>

\* findings.length of null inside the promise executor rejects the promise
renderPdfThrows(vulns) ==
    \E i \in 1..Min(PdfRowCap, Len(vulns)) : parseFindingsNoLength(vulns[i])

NormPdf ==
    /\ output.by = "none"
    /\ output' = [by |-> "renderPdf",
                  threw |-> renderPdfThrows(input),
                  res |-> IF renderPdfThrows(input) THEN NoResult
                          ELSE pdfOf([pipelineId |-> sPipe, vulnRows |-> input,
                                      fixRows |-> <<>>, anomalyCount |-> 0],
                                     computeScore(<<>>, 0), 1, NoFile)]
    /\ UNCHANGED <<input, db, files, inflight, resp, hist>>

NormAlerts ==
    /\ output.by = "none"
    /\ output' = [by |-> "vulnRowsToAlerts",
                  threw |-> vulnRowsToAlertsThrows(input),
                  res |-> IF vulnRowsToAlertsThrows(input) THEN NoResult
                          ELSE [alerts |-> vulnRowsToAlerts(input)]]
    /\ UNCHANGED <<input, db, files, inflight, resp, hist>>

NextNorm == NormScore \/ NormSarif \/ NormPdf \/ NormAlerts

SpecNorm == InitNorm /\ [][NextNorm]_vars

\* ---- claims about the normalizers

\* the findings of the rows of the batch that hold an array, stored as such
\* or as a string that parses to one
ListedFindings(row) ==
    IF row.findings.k \in {"array", "strArray"} THEN row.findings.items ELSE <<>>

RuleOrDefault(f) == IF Truthy(f.rule_id) THEN f.rule_id.v ELSE sDefaultRule

\* C21: in every batch of report rows, a row whose findings are absent or
\* null, a string that does not parse, a string that parses to a non-array
\* value or a stored non-array value contributes no finding, and the findings
\* of the other rows are returned with no error raised, by computeScore,
\* toSarif and renderPdf of the report generator and by vulnRowsToAlerts of
\* the dashboard.
C21_NonArrayFindingsIgnored ==
    output.by \in {"computeScore", "toSarif", "renderPdf", "vulnRowsToAlerts"} =>
        LET listed == Flatten([i \in DOMAIN input |-> ListedFindings(input[i])])
        IN  /\ ~output.threw
            /\ output.by = "computeScore" =>
                  output.res.stats.totalFindings = Len(listed)
            /\ output.by = "toSarif" =>
                  {output.res.runs[1].results[i].ruleId :
                      i \in DOMAIN output.res.runs[1].results}
                    = {RuleOrDefault(listed[i]) : i \in DOMAIN listed}
            /\ output.by = "renderPdf" =>
                  \A i \in DOMAIN output.res.vulns :
                     output.res.vulns[i].findings = ListedFindings(input[i])
            /\ output.by = "vulnRowsToAlerts" =>
                  Len(output.res.alerts) = Len(listed)

\* C22: every alert the dashboard normalizer emits has a severity among
\* critical, high, medium, low (stored severities are matched without regard
\* to case, unknown and missing ones become "low"), so an alert the score
\* weighs as low is also selected by the filter severity=low.
C22_SeverityNormalized ==
    (output.by = "vulnRowsToAlerts" /\ ~output.threw) =>
        LET alerts == output.res.alerts
            low == filterAlerts(alerts, JStr(sLow))
        IN  \A i \in DOMAIN alerts :
               /\ alerts[i].severity.v \in Severities
               /\ dashSeverityWeight(alerts[i].severity) = 1 =>
                     \E j \in DOMAIN low : low[j] = alerts[i]

\* C26: every alert the dashboard normalizer emits carries its evidence as a
\* string, whatever the stored evidence is (missing, null, string, number,
\* boolean, array, object): a string is passed through, structured evidence
\* is serialized, and the same stored evidence gives the same string.
C26_EvidenceIsString ==
    (output.by = "vulnRowsToAlerts" /\ ~output.threw /\ Len(input) = 1
        /\ input[1].findings.k = "array") =>
        LET alerts == output.res.alerts
            stored == input[1].findings.items
        IN  /\ Len(alerts) = Len(stored)
            /\ \A i \in DOMAIN alerts :
                  /\ alerts[i].evidence.t = "str"
                  /\ stored[i].evidence.t = "str" =>
                        alerts[i].evidence = stored[i].evidence
                  /\ stored[i].evidence.t \in {"array", "object"} =>
                        alerts[i].evidence.v # <<>>
                  /\ \A j \in DOMAIN alerts :
                        stored[i].evidence = stored[j].evidence =>
                           alerts[i].evidence = alerts[j].evidence

-----------------------------------------------------------------------------
(* The functions the report-generator exports to other modules:            *)
(* utils/score.js computeScore and module.exports.toSarif of index.js,     *)
(* applied to flat finding lists next to their in-service counterparts.    *)

\* utils/score.js: 100 minus 30, 20, 10 or 5 per finding (severity compared
\* with ===) minus 5 per anomaly, not below 0
utilsComputeScore(vulns, anomalies) ==
    LET cost(v) == IF v.severity = JStr(sCritical) THEN 30
                   ELSE IF v.severity = JStr(sHigh) THEN 20
                   ELSE IF v.severity = JStr(sMedium) THEN 10
                   ELSE 5
        score == 100 - SumSeq([i \in DOMAIN vulns |-> cost(vulns[i])])
                     - anomalies * 5
    IN  Max(score, 0)

\* module.exports.toSarif: one rule and one result per finding, the level
\* is the severity as stored
exportsToSarif(findings) ==
    [version |-> sVersion,
     runs |-> << [tool |-> [driver |->
                     [name |-> sToolName,
                      rules |-> [i \in DOMAIN findings |->
                                   [id |-> findings[i].rule_id,
                                    name |-> findings[i].title,
                                    shortDescription |->
                                        [text |-> findings[i].description]]]]],
                  results |-> [i \in DOMAIN findings |->
                                 [ruleId |-> findings[i].rule_id,
                                  level |-> findings[i].severity,
                                  message |->
                                      [text |-> findings[i].description]]]] >>]

ExportInputs ==
    ScoreInputs \cup
    { [findings |-> fs, anomalyCount |-> 0] : fs \in RuleFindings \cup LevelFindings }

InitExports ==
    /\ input \in ExportInputs
    /\ output = NoOutput
    /\ IdleServer

\* the findings as one stored report of the pipeline
oneRow(fs) == << Row(1, sPipe, 1, "array", fs) >>

ExportedScore ==
    /\ output.by = "none"
    /\ output' = [by |-> "computeScore",
                  exported |-> utilsComputeScore(input.findings,
                                                 input.anomalyCount),
                  service |-> computeScore(oneRow(input.findings),
                                           input.anomalyCount).score]
    /\ UNCHANGED <<input, db, files, inflight, resp, hist>>

ExportedSarif ==
    /\ output.by = "none"
    /\ output' = [by |-> "toSarif",
                  exported |-> exportsToSarif(input.findings),
                  threw |-> toSarifThrows(oneRow(input.findings)),
                  service |-> IF toSarifThrows(oneRow(input.findings)) THEN NoDoc
                              ELSE toSarif(sPipe, oneRow(input.findings))]
    /\ UNCHANGED <<input, db, files, inflight, resp, hist>>

NextExports == ExportedScore \/ ExportedSarif

SpecExports == InitExports /\ [][NextExports]_vars

\* ---- claims about the exported functions

\* C27: for every flat finding list and anomaly count, computeScore of
\* utils/score.js returns the score value of the in-service computeScore,
\* which is the formula's: 100 without findings and anomalies, 20 for eight
\* critical findings, 70 for fifteen anomalies.
C27_ExportedScoreAgrees ==
    output.by = "computeScore" =>
        /\ output.exported = output.service
        /\ output.exported = ClaimedValue(input.findings, input.anomalyCount)

\* C28: the results of the exported toSarif keep the contract of the
\* in-service toSarif: every level is error, warning or note, chosen from
\* the severity, and there is at most one result per ruleId, the first
\* finding of the rule.
C28_ExportedSarifContract ==
    output.by = "toSarif" =>
        LET results == output.exported.runs[1].results IN
        /\ \A i \in DOMAIN results :
              /\ results[i].level.t = "str"
              /\ results[i].level.v \in {sError, sWarning, sNote}
              /\ results[i].level.v = ClaimedLevel(input.findings[i].severity)
        /\ \A i, j \in DOMAIN results :
              i # j => results[i].ruleId # results[j].ruleId

-----------------------------------------------------------------------------
(* Artifact paths: the identifier of a request is validated and the three  *)
(* paths are built from it, as generateReport and the download routes do;  *)
(* the file system resolves a path segment by segment.                     *)

\* the segments of a path, split at the separator
RECURSIVE SplitPath(_)
SplitPath(p) ==
    LET cuts == {i \in DOMAIN p : p[i] = "/"} IN
    IF cuts = {} THEN <<p>>
    ELSE LET i == CHOOSE c \in cuts : \A d \in cuts : c <= d
         IN  <<SubSeq(p, 1, i - 1)>> \o SplitPath(SubSeq(p, i + 1, Len(p)))

\* path resolution of a relative path: empty and "." segments drop out,
\* ".." takes the segment before it away
RECURSIVE ResolveFrom(_, _)
ResolveFrom(segs, acc) ==
    IF segs = <<>> THEN acc
    ELSE LET h == Head(segs) IN
         IF h = <<>> \/ h = <<".">> THEN ResolveFrom(Tail(segs), acc)
         ELSE IF h = <<".", ".">> /\ acc # <<>> /\ acc[Len(acc)] # <<".", ".">>
         THEN ResolveFrom(Tail(segs), SubSeq(acc, 1, Len(acc) - 1))
         ELSE ResolveFrom(Tail(segs), Append(acc, h))

ResolvePath(p) == ResolveFrom(SplitPath(p), <<>>)

InitPath ==
    /\ input \in {JStr(s) : s \in IdInputs}
    /\ output = NoOutput
    /\ IdleServer

\* const pipelineId = safePipelineId(req.params.pipelineId); the paths of
\* the three artifacts when it is accepted
ArtifactPaths ==
    /\ output.by = "none"
    /\ LET pipelineId == safePipelineId(input) IN
       output' = IF pipelineId = Undef
                 THEN [by |-> "paths", accepted |-> FALSE]
                 ELSE [by |-> "paths", accepted |-> TRUE, id |-> pipelineId.v,
                       paths |-> [e \in Exts |-> filePathFor(pipelineId.v, e)]]
    /\ UNCHANGED <<input, db, files, inflight, resp, hist>>

NextPath == ArtifactPaths

SpecPath == InitPath /\ [][NextPath]_vars

\* C30: for every identifier safePipelineId accepts (also one made of dots
\* only, such as "..") and each of the formats html, pdf, sarif, the path
\* filePathFor builds is a direct child of the reports directory: its file
\* name has no path separator and the path resolves neither to the directory
\* nor to its parent nor to a place outside it.
C30_PathInsideReportsDir ==
    (output.by = "paths" /\ output.accepted) =>
        \A e \in Exts :
            LET segs == ResolvePath(output.paths[e])
                name == output.id \o <<".">> \o e
            IN  /\ segs = <<sReportsDir, name>>
                /\ "/" \notin Range(name)
                /\ name \notin {<<".">>, <<".", ".">>}

C30_Witness ==
    /\ output.by = "paths"
    /\ output.accepted
    /\ output.id = <<".", ".">>
    /\ output.paths[sPdf] = sReportsDir \o <<"/", ".", ".", ".", "p", "d", "f">>

-----------------------------------------------------------------------------
(* The queries GET /dashboard composes: the placeholders $n the text uses, *)
(* in the order of the text, and the parameter list sent with it.          *)

Use(what, n) == [what |-> what, n |-> n]

\* runConds / runParams, LIMIT $i with [...runParams, 25]
timelineSql(pipeline) ==
    LET conds == IF Truthy(pipeline) THEN <<Use("pipeline", 1)>> ELSE <<>>
        runParams == IF Truthy(pipeline) THEN <<pipeline>> ELSE <<>>
        i == Len(conds) + 1
    IN  [uses |-> conds \o <<Use("limit", i)>>,
         params |-> runParams \o <<Whole(TimelineCap)>>]

\* the text condition numbered like the condition before it
vulnSqlShifted(pipeline, q, limit) ==
    LET pipeConds == IF Truthy(pipeline) THEN <<Use("pipeline", 1)>> ELSE <<>>
        pipeParams == IF Truthy(pipeline) THEN <<pipeline>> ELSE <<>>
        j == Len(pipeConds)
        textConds == IF q # <<>> THEN [n \in 1..4 |-> Use("text", j)] ELSE <<>>
        textParams == IF q # <<>> THEN <<JStr(<<"%">> \o q \o <<"%">>)>> ELSE <<>>
    IN  [uses |-> pipeConds \o textConds \o <<Use("limit", j + 1)>>,
         params |-> pipeParams \o textParams \o <<limit>>]

\* vulnConds / vulnParams: pipeline = $j++, then four ILIKE $j over one
\* pattern and j++, LIMIT $j with [...vulnParams, limit]
vulnSql(pipeline, q, limit) ==
    LET pipeConds == IF Truthy(pipeline) THEN <<Use("pipeline", 1)>> ELSE <<>>
        pipeParams == IF Truthy(pipeline) THEN <<pipeline>> ELSE <<>>
        j == Len(pipeConds) + 1
        textConds == IF q # <<>> THEN [n \in 1..4 |-> Use("text", j)] ELSE <<>>
        textParams == IF q # <<>> THEN <<JStr(<<"%">> \o q \o <<"%">>)>> ELSE <<>>
        last == IF q # <<>> THEN j + 1 ELSE j
    IN  [uses |-> pipeConds \o textConds \o <<Use("limit", last)>>,
         params |-> pipeParams \o textParams \o <<limit>>]

\* fixConds / fixParams; the limit of 20 is written into the text
fixSql(pipeline) ==
    [uses |-> IF Truthy(pipeline) THEN <<Use("pipeline", 1)>> ELSE <<>>,
     params |-> IF Truthy(pipeline) THEN <<pipeline>> ELSE <<>>]

SqlRequests ==
    { [pipeline |-> pl, severity |-> Undef, q |-> q, limit |-> l] :
        pl \in PipelineInputs, q \in TextInputs \cup {JStr(<<" ">>)},
        l \in LimitInputs }

InitSql ==
    /\ input \in SqlRequests
    /\ output = NoOutput
    /\ IdleServer

ComposeQueries ==
    /\ output.by = "none"
    /\ output' = [by |-> "compose",
                  timeline |-> timelineSql(pipelineOf(input)),
                  vuln |-> vulnSql(pipelineOf(input), textOf(input),
                                   limitOf(input)),
                  fixes |-> fixSql(pipelineOf(input))]
    /\ UNCHANGED <<input, db, files, inflight, resp, hist>>

NextSql == ComposeQueries

SpecSql == InitSql /\ [][NextSql]_vars

\* the placeholders of query are $1..$n for its n parameters and each binds
\* the value of its own filter
WellBound(query, pipeline, pattern, limit) ==
    /\ {query.uses[i].n : i \in DOMAIN query.uses} = 1..Len(query.params)
    /\ \A i \in DOMAIN query.uses :
          LET u == query.uses[i] IN
          /\ u.what = "pipeline" => query.params[u.n] = pipeline
          /\ u.what = "text" => query.params[u.n] = pattern
          /\ u.what = "limit" => query.params[u.n] = limit

Filters(query) == {query.uses[i].what : i \in DOMAIN query.uses}

\* C29: whichever filters a dashboard request has (pipeline or none, search
\* text or none), each composed query (timeline, vulnerability reports,
\* fixes) uses the placeholders $1..$n for its n parameters, the pipeline
\* placeholder binds the pipeline, the search placeholder the pattern %q%
\* and the LIMIT placeholder the limit.
C29_PlaceholdersBound ==
    output.by = "compose" =>
        LET pipeline == IF input.pipeline \in {Undef, JStr(sAll)} THEN Undef
                        ELSE input.pipeline
            text == Trim(IF input.q = Undef THEN <<>> ELSE input.q.v)
            pattern == JStr(<<"%">> \o text \o <<"%">>)
            some == IF pipeline = Undef THEN {} ELSE {"pipeline"}
        IN  /\ WellBound(output.timeline, pipeline, pattern, Whole(TimelineCap))
            /\ WellBound(output.vuln, pipeline, pattern, limitOf(input))
            /\ WellBound(output.fixes, pipeline, pattern, limitOf(input))
            /\ Filters(output.timeline) = some \cup {"limit"}
            /\ Filters(output.vuln)
                  = some \cup {"limit"} \cup (IF text = <<>> THEN {} ELSE {"text"})
            /\ Filters(output.fixes) = some

C29_Witness ==
    /\ output.by = "compose"
    /\ Len(output.vuln.params) = 3
    /\ output.vuln.params[1] = JStr(sPipe)
    /\ output.vuln.params[2] = JStr(<<"%", "P", "1", "%">>)
    /\ output.vuln.params[3] = Whole(LimitMax)
    /\ output.vuln.uses[Len(output.vuln.uses)] = Use("limit", 3)
    /\ Len(output.timeline.params) = 2
    /\ Len(output.fixes.params) = 1

====
